---- MODULE Spec2Model ----
(***************************************************************************)
(* The Argonauts trip planner: the review/refinement control loop of       *)
(* OrchestratorAgentCapstone.plan_trip, the review-reply parsers of the    *)
(* lite and the strict (pro) tier, Config's tier selection and             *)
(* validate_trip_input, modelled from the Python sources.                  *)
(*                                                                         *)
(* Texts (review replies, model names, ISO dates) are sequences of         *)
(* one-character strings, so that lower(), substring tests, string         *)
(* comparison and the score regular expression are computed as the code    *)
(* computes them.  Scores are integers: the regular expression captures    *)
(* digits only, so float(group(1)) and int(group(1)) are whole numbers,    *)
(* and the thresholds 7.0 and 8.0 are whole numbers too.                   *)
(***************************************************************************)
EXTENDS Integers, Sequences, FiniteSets, TLC

VARIABLES
    MODEL_NAME,        \* Config.MODEL_NAME, the global model name
    trip_input,        \* the TripInput handed to the entry point
    pc,                \* where the code stands (the await it is suspended at)
    agents,            \* the tier of the agent classes load_agents_for_model returned
    research_data,     \* plan_trip's local research_data
    current_itinerary, \* plan_trip's local current_itinerary
    review_result,     \* plan_trip's local review_result / the parser's return value
    approved,          \* plan_trip's local approved
    iteration,         \* plan_trip's local iteration / the parser's iteration argument
    max_iterations,    \* plan_trip's local max_iterations
    metrics,           \* OrchestratorAgentCapstone.metrics
    raised,            \* the exception that left the entry point, or NoException
    response_text,     \* the reply text the review stage received last
    returned,          \* what plan_trip returned to its caller, or NoItinerary
    calls,             \* observed generation calls, per stage
    replies,           \* the review replies received in this run, in order
    failure,           \* the generation call that raised in this run, if one did
    clock,             \* datetime.now(), in whole seconds
    session_id,        \* plan_trip's session_id
    session_files,     \* the files of .sessions/, by session id
    log_files,         \* the files of logs/, by the timestamp in their name
    runs,              \* the plan_trip coroutines of the concurrent specification
    evaluation,        \* what TripPlannerEvaluator.evaluate returned
    weather,           \* a WeatherAPI.get_weather call: its object, arguments and outcome
    plugin             \* the ObservabilityPlugin: its tracking state and its metrics

vars == <<MODEL_NAME, trip_input, pc, agents, research_data, current_itinerary,
          review_result, approved, iteration, max_iterations, metrics, raised,
          response_text, returned, calls, replies, failure, clock, session_id,
          session_files, log_files, runs, evaluation, weather, plugin>>

-----------------------------------------------------------------------------
(* Text primitives: str.lower, the `in` substring test, str comparison.    *)

UpperChars == <<"A", "B", "C", "D", "E", "F", "G", "H", "I", "J", "K", "L", "M",
                "N", "O", "P", "Q", "R", "S", "T", "U", "V", "W", "X", "Y", "Z">>
LowerChars == <<"a", "b", "c", "d", "e", "f", "g", "h", "i", "j", "k", "l", "m",
                "n", "o", "p", "q", "r", "s", "t", "u", "v", "w", "x", "y", "z">>
DigitChars == <<"0", "1", "2", "3", "4", "5", "6", "7", "8", "9">>

LowerChar(c) ==
    IF \E i \in DOMAIN UpperChars : UpperChars[i] = c
    THEN LowerChars[CHOOSE i \in DOMAIN UpperChars : UpperChars[i] = c]
    ELSE c

\* str.lower()
lower(s) == [i \in 1..Len(s) |-> LowerChar(s[i])]

\* s[i:].startswith(p), 1-based
StartsWithAt(s, i, p) ==
    /\ i + Len(p) - 1 <= Len(s)
    /\ \A k \in 1..Len(p) : s[i + k - 1] = p[k]

\* p in s
Contains(s, p) == \E i \in 1..(Len(s) + 1) : StartsWithAt(s, i, p)

IsDigit(c) == \E d \in DOMAIN DigitChars : DigitChars[d] = c
DigitValue(c) == (CHOOSE d \in DOMAIN DigitChars : DigitChars[d] = c) - 1

\* int(s) / float(s) of a string of decimal digits
RECURSIVE IntOf(_)
IntOf(s) ==
    IF Len(s) = 0 THEN 0
    ELSE 10 * IntOf(SubSeq(s, 1, Len(s) - 1)) + DigitValue(s[Len(s)])

SetMin(S) == CHOOSE x \in S : \A y \in S : x <= y
SetMax(S) == CHOOSE x \in S : \A y \in S : y <= x

-----------------------------------------------------------------------------
(* Config (src/config.py).                                                 *)

TxtLite == <<"l", "i", "t", "e">>

\* get_model_tier without the lower(): a case-sensitive test.
get_model_tier_CaseSensitive(model_name) ==
    IF Contains(model_name, TxtLite) THEN "lite" ELSE "pro"

\* Config.get_model_tier
get_model_tier(model_name) ==
    IF Contains(lower(model_name), TxtLite) THEN "lite" ELSE "pro"

LiteMaxIterations == 3
ProMaxIterations == 5
LiteApprovalThreshold == 7
ProApprovalThreshold == 8

\* Config.get_max_iterations
get_max_iterations(model_name) ==
    IF get_model_tier(model_name) = "lite" THEN LiteMaxIterations ELSE ProMaxIterations

\* Config.get_approval_threshold
get_approval_threshold(model_name) ==
    IF get_model_tier(model_name) = "lite"
    THEN LiteApprovalThreshold ELSE ProApprovalThreshold

\* Config.MAX_REVIEW_ITERATIONS, a class attribute that no code reassigns
MAX_REVIEW_ITERATIONS == 3

-----------------------------------------------------------------------------
(* The review-reply parsers.                                               *)

TxtSlash10 == <<"/", "1", "0">>
TxtOutOf10 == <<" ", "o", "u", "t", " ", "o", "f", " ", "1", "0">>
TxtApprove == <<"a", "p", "p", "r", "o", "v", "e">>
TxtApproved == <<"a", "p", "p", "r", "o", "v", "e", "d">>
TxtLooksGood == <<"l", "o", "o", "k", "s", " ", "g", "o", "o", "d">>
TxtGeographic == <<"g", "e", "o", "g", "r", "a", "p", "h", "i", "c">>
TxtFail == <<"f", "a", "i", "l">>
TxtActivityCount == <<"a", "c", "t", "i", "v", "i", "t", "y", " ", "c", "o", "u", "n", "t">>
TxtCost == <<"c", "o", "s", "t">>
TxtInterest == <<"i", "n", "t", "e", "r", "e", "s", "t">>
TxtTiming == <<"t", "i", "m", "i", "n", "g">>
TxtSchedule == <<"s", "c", "h", "e", "d", "u", "l", "e">>
TxtBudget == <<"b", "u", "d", "g", "e", "t">>
TxtBalance == <<"b", "a", "l", "a", "n", "c", "e">>
TxtGreatItinerary ==
    <<"G", "r", "e", "a", "t", " ", "i", "t", "i", "n", "e", "r", "a", "r", "y", "!",
      " ", "M", "i", "n", "o", "r", " ", "p", "o", "l", "i", "s", "h", "i", "n", "g",
      " ", "s", "u", "g", "g", "e", "s", "t", "i", "o", "n", "s", " ", "i", "n", "c",
      "l", "u", "d", "e", "d", ".">>

\* The alternation (?:/10| out of 10) matched at position i.
ScoreSuffixAt(s, i) == StartsWithAt(s, i, TxtSlash10) \/ StartsWithAt(s, i, TxtOutOf10)

\* The ends e of the matches of (\d+)(?:/10| out of 10) that start at i.
ScoreMatchEnds(s, i) ==
    {e \in i..Len(s) : (\A k \in i..e : IsDigit(s[k])) /\ ScoreSuffixAt(s, e + 1)}

\* re.search(r'(\d+)(?:/10| out of 10)', s): group(1) of the leftmost match,
\* \d+ greedy; <<>> stands for None (group(1) is never empty in a match).
re_search_score(s) ==
    LET starts == {i \in 1..Len(s) : ScoreMatchEnds(s, i) # {}}
    IN  IF starts = {} THEN <<>>
        ELSE LET i == SetMin(starts)
             IN  SubSeq(s, i, SetMax(ScoreMatchEnds(s, i)))

NoException == "none"

\* ReviewResult(...): pydantic validates quality_score against ge=0, le=10
\* and raises ValidationError outside that range.
ReviewResult(p_approved, p_quality_score, p_issues, p_suggestions, p_summary, p_iteration) ==
    IF p_quality_score >= 0 /\ p_quality_score <= 10
    THEN [raised |-> NoException,
          approved |-> p_approved,
          quality_score |-> p_quality_score,
          issues_found |-> p_issues,
          suggestions |-> p_suggestions,
          review_summary |-> p_summary,
          iteration_number |-> p_iteration]
    ELSE [raised |-> "ValidationError",
          approved |-> FALSE,
          quality_score |-> 0,
          issues_found |-> <<>>,
          suggestions |-> <<>>,
          review_summary |-> <<>>,
          iteration_number |-> 0]

\* No ReviewResult yet.
NoReview ==
    [raised |-> "unset", approved |-> FALSE, quality_score |-> 0, issues_found |-> <<>>,
     suggestions |-> <<>>, review_summary |-> <<>>, iteration_number |-> 0]

\* ReviewAgentLite._parse_review_response; Config.MODEL_NAME is read when the
\* threshold is looked up.
parse_review_response_lite(text, iter, model_name) ==
    LET response_lower == lower(text)
        score_match == re_search_score(response_lower)
        quality_score == IF score_match # <<>> THEN IntOf(score_match) ELSE 7
        threshold == get_approval_threshold(model_name)
        is_approved == quality_score >= threshold
        failed == Contains(response_lower, TxtFail)
        issues ==
            (IF Contains(response_lower, TxtGeographic) /\ failed
                THEN <<"Geographic routing issues">> ELSE <<>>)
            \o (IF Contains(response_lower, TxtActivityCount) /\ failed
                THEN <<"Too many activities">> ELSE <<>>)
            \o (IF Contains(response_lower, TxtCost) /\ failed
                THEN <<"Missing costs">> ELSE <<>>)
            \o (IF Contains(response_lower, TxtInterest) /\ failed
                THEN <<"Doesn't match interests">> ELSE <<>>)
            \o (IF Contains(response_lower, TxtTiming) /\ failed
                THEN <<"Timing unrealistic">> ELSE <<>>)
    IN  ReviewResult(is_approved, quality_score, issues, <<text>>, text, iter)

\* ReviewAgentCapstone._parse_review_response, the strict tier's parser.
parse_review_response_capstone(text, iter) ==
    LET response_lower == lower(text)
        is_approved ==
            \/ Contains(response_lower, TxtApprove)
            \/ Contains(response_lower, TxtApproved)
            \/ Contains(response_lower, TxtLooksGood)
            \/ iter >= MAX_REVIEW_ITERATIONS
        score_match == re_search_score(response_lower)
        quality_score ==
            IF score_match # <<>> THEN IntOf(score_match)
            ELSE IF is_approved THEN 8 ELSE 6
        issues ==
            IF is_approved THEN <<>>
            ELSE (IF Contains(response_lower, TxtTiming) \/ Contains(response_lower, TxtSchedule)
                     THEN <<"Timing/scheduling concerns">> ELSE <<>>)
                 \o (IF Contains(response_lower, TxtBudget) \/ Contains(response_lower, TxtCost)
                     THEN <<"Budget alignment issues">> ELSE <<>>)
                 \o (IF Contains(response_lower, TxtBalance)
                     THEN <<"Activity balance needs improvement">> ELSE <<>>)
        suggestions == IF is_approved THEN <<TxtGreatItinerary>> ELSE <<text>>
    IN  ReviewResult(is_approved, quality_score, issues, suggestions, text, iter)

\* review_agent._parse_review_response of the review agent class that was
\* loaded; ReviewAgentPro carries the strict tier's parser.
parse_review_response(review_class, text, iter, model_name) ==
    IF review_class = "ReviewAgentLite"
    THEN parse_review_response_lite(text, iter, model_name)
    ELSE parse_review_response_capstone(text, iter)

-----------------------------------------------------------------------------
(* Dates and input validation (src/models/trip_models.py,                  *)
(* src/utils/error_handler.py).                                            *)

\* The characters of the model's date strings in code-point order; Python
\* compares str values by code point.
CodeChars ==
    <<"-", "0", "1", "2", "3", "4", "5", "6", "7", "8", "9">> \o LowerChars

CharCode(c) == CHOOSE i \in DOMAIN CodeChars : CodeChars[i] = c

\* a < b on str
StrLess(a, b) ==
    \E k \in 1..Len(b) :
        /\ k <= Len(a) + 1
        /\ \A j \in 1..(k - 1) : a[j] = b[j]
        /\ (k = Len(a) + 1 \/ CharCode(a[k]) < CharCode(b[k]))

IsLeapYear(y) == (y % 4 = 0 /\ y % 100 # 0) \/ y % 400 = 0

DaysInMonth(y, m) ==
    IF m = 2 THEN (IF IsLeapYear(y) THEN 29 ELSE 28)
    ELSE IF m \in {4, 6, 9, 11} THEN 30 ELSE 31

RECURSIVE DaysBeforeMonth(_, _)
DaysBeforeMonth(y, m) ==
    IF m = 1 THEN 0 ELSE DaysBeforeMonth(y, m - 1) + DaysInMonth(y, m - 1)

\* date.toordinal(): days since 0001-01-01, which is day 1
ToOrdinal(y, m, d) ==
    LET py == y - 1
    IN  py * 365 + (py \div 4) - (py \div 100) + (py \div 400) + DaysBeforeMonth(y, m) + d

AllDigits(s) == \A k \in 1..Len(s) : IsDigit(s[k])

\* Whether datetime.fromisoformat accepts s, for the strings of this model
\* (YYYY-MM-DD dates and text that is no date at all).
IsIsoDate(s) ==
    /\ Len(s) = 10
    /\ s[5] = "-" /\ s[8] = "-"
    /\ AllDigits(SubSeq(s, 1, 4)) /\ AllDigits(SubSeq(s, 6, 7)) /\ AllDigits(SubSeq(s, 9, 10))
    /\ IntOf(SubSeq(s, 1, 4)) >= 1
    /\ IntOf(SubSeq(s, 6, 7)) \in 1..12
    /\ IntOf(SubSeq(s, 9, 10)) \in 1..DaysInMonth(IntOf(SubSeq(s, 1, 4)), IntOf(SubSeq(s, 6, 7)))

\* datetime.fromisoformat(s), as the ordinal of the day, for an accepted s
fromisoformat(s) ==
    ToOrdinal(IntOf(SubSeq(s, 1, 4)), IntOf(SubSeq(s, 6, 7)), IntOf(SubSeq(s, 9, 10)))

\* TripDates.duration_days: (end - start).days + 1; fromisoformat raises
\* ValueError on a string it cannot parse.
duration_days(dates) ==
    IF IsIsoDate(dates.start_date) /\ IsIsoDate(dates.end_date)
    THEN [raised |-> NoException,
          value |-> fromisoformat(dates.end_date) - fromisoformat(dates.start_date) + 1]
    ELSE [raised |-> "ValueError", value |-> 0]

valid_budgets == <<"budget", "mid-range", "luxury">>
valid_paces == <<"relaxed", "moderate", "fast">>

InList(x, list) == \E i \in DOMAIN list : list[i] = x

MaxTripDays == 365

Passed == [raised |-> NoException, message |-> ""]
InvalidInput(msg) == [raised |-> "InvalidInputError", message |-> msg]

\* validate_trip_input with the upper duration check off by one (>= for >).
validate_trip_input_OffByOne(ti) ==
    IF ti.destination = "" THEN InvalidInput("Destination is required")
    ELSE IF StrLess(ti.dates.end_date, ti.dates.start_date)
         THEN InvalidInput("End date must be after start date")
    ELSE IF duration_days(ti.dates).raised # NoException
         THEN [raised |-> duration_days(ti.dates).raised, message |-> "Invalid isoformat string"]
    ELSE IF duration_days(ti.dates).value < 1
         THEN InvalidInput("Trip duration must be at least 1 day")
    ELSE IF duration_days(ti.dates).value >= MaxTripDays
         THEN InvalidInput("Trip duration cannot exceed 365 days (really? that's not a trip, that's relocating!)")
    ELSE IF ~InList(ti.preferences.budget_level, valid_budgets)
         THEN InvalidInput("Budget level must be one of: budget, mid-range, luxury")
    ELSE IF ~InList(ti.preferences.pace_preference, valid_paces)
         THEN InvalidInput("Pace must be one of: relaxed, moderate, fast")
    ELSE Passed

\* validate_trip_input: what it raises, with the message, or Passed when it
\* returns.  The checks run in the order of the source; duration_days is
\* first evaluated by the duration check.  A TripInput always carries a
\* TripDates object, which is truthy, so `not trip_input.dates` never holds.
validate_trip_input(ti) ==
    IF ti.destination = "" THEN InvalidInput("Destination is required")
    ELSE IF StrLess(ti.dates.end_date, ti.dates.start_date)
         THEN InvalidInput("End date must be after start date")
    ELSE IF duration_days(ti.dates).raised # NoException
         THEN [raised |-> duration_days(ti.dates).raised, message |-> "Invalid isoformat string"]
    ELSE IF duration_days(ti.dates).value < 1
         THEN InvalidInput("Trip duration must be at least 1 day")
    ELSE IF duration_days(ti.dates).value > MaxTripDays
         THEN InvalidInput("Trip duration cannot exceed 365 days (really? that's not a trip, that's relocating!)")
    ELSE IF ~InList(ti.preferences.budget_level, valid_budgets)
         THEN InvalidInput("Budget level must be one of: budget, mid-range, luxury")
    ELSE IF ~InList(ti.preferences.pace_preference, valid_paces)
         THEN InvalidInput("Pace must be one of: relaxed, moderate, fast")
    ELSE Passed

-----------------------------------------------------------------------------
(* The inputs of the model.                                                *)

NameFlashLite ==
    <<"g", "e", "m", "i", "n", "i", "-", "2", ".", "5", "-", "f", "l", "a", "s", "h",
      "-", "l", "i", "t", "e">>
NameFlashLiteUpper ==
    <<"G", "E", "M", "I", "N", "I", "-", "2", ".", "5", "-", "F", "L", "A", "S", "H",
      "-", "L", "I", "T", "E">>
NameFlash ==
    <<"g", "e", "m", "i", "n", "i", "-", "2", ".", "5", "-", "f", "l", "a", "s", "h">>

ModelNames == {NameFlashLite, NameFlashLiteUpper, NameFlash}

Date20260101 == <<"2", "0", "2", "6", "-", "0", "1", "-", "0", "1">>
Date20260401 == <<"2", "0", "2", "6", "-", "0", "4", "-", "0", "1">>
Date20260410 == <<"2", "0", "2", "6", "-", "0", "4", "-", "1", "0">>
Date20261231 == <<"2", "0", "2", "6", "-", "1", "2", "-", "3", "1">>
Date20270101 == <<"2", "0", "2", "7", "-", "0", "1", "-", "0", "1">>
DateInvalid == <<"i", "n", "v", "a", "l", "i", "d", "-", "d", "a", "t", "e">>

IsoDates == {Date20260101, Date20260401, Date20260410, Date20261231, Date20270101}
DateStrings == IsoDates \cup {DateInvalid}

TripInputOf(dest, start, end, budget, pace) ==
    [destination |-> dest,
     dates |-> [start_date |-> start, end_date |-> end],
     preferences |-> [budget_level |-> budget, pace_preference |-> pace]]

Destinations == {"", "Tokyo, Japan"}
BudgetLevels == {"budget", "mid-range", "luxury", "cheap"}
PacePreferences == {"relaxed", "moderate", "fast", "fast-paced"}

\* Every TripInput of the validation specification.
TripInputs ==
    {TripInputOf(d, s, e, b, p) :
        d \in Destinations, s \in DateStrings, e \in DateStrings,
        b \in BudgetLevels, p \in PacePreferences}

\* The TripInputs of the planning runs: every pair of dates for the mid-range,
\* moderate trip to Tokyo, and one input for each other way of being invalid.
RunInputs ==
    {TripInputOf("Tokyo, Japan", s, e, "mid-range", "moderate") :
        s \in DateStrings, e \in DateStrings}
    \cup {TripInputOf("", Date20260401, Date20260410, "mid-range", "moderate"),
          TripInputOf("Tokyo, Japan", Date20260401, Date20260410, "cheap", "moderate"),
          TripInputOf("Tokyo, Japan", Date20260401, Date20260410, "luxury", "fast-paced"),
          TripInputOf("Tokyo, Japan", Date20260401, Date20260410, "budget", "relaxed")}

ReplyNeedsRevision ==
    <<"S", "c", "o", "r", "e", ":", " ", "6", "/", "1", "0", ",", " ", "n", "e", "e",
      "d", "s", " ", "r", "e", "v", "i", "s", "i", "o", "n">>
ReplyApproved ==
    <<"S", "c", "o", "r", "e", ":", " ", "9", "/", "1", "0", ",", " ", "a", "p", "p",
      "r", "o", "v", "e", "d">>
ReplyScore5 == <<"S", "c", "o", "r", "e", ":", " ", "5", "/", "1", "0">>
ReplyScore15 == <<"S", "c", "o", "r", "e", ":", " ", "1", "5", "/", "1", "0">>
ReplyLooksGood == <<"L", "o", "o", "k", "s", " ", "g", "o", "o", "d">>
ReplyEmpty == <<>>

\* The replies the generation service gives to a review request in a run.
ReviewReplies ==
    {ReplyNeedsRevision, ReplyApproved, ReplyScore5, ReplyScore15, ReplyLooksGood, ReplyEmpty}

\* What a failing generation call raises.
GenerationErrors == {"RateLimitError", "ServerError"}

\* The pieces the reply texts of the parser specification are built from.
ParseTokens ==
    {<<"5">>, <<"7">>, <<"9">>, <<"1">>, <<".">>, TxtSlash10, TxtOutOf10,
     <<"A", "p", "p", "r", "o", "v", "e", "d">>,
     <<" ", "L", "o", "o", "k", "s", " ", "G", "o", "o", "d">>}

MaxTokens == 3

RECURSIVE Concat(_)
Concat(ts) == IF ts = <<>> THEN <<>> ELSE Head(ts) \o Concat(Tail(ts))

\* Every text of at most MaxTokens pieces.
ParseTexts == {Concat(ts) : ts \in UNION {[1..k -> ParseTokens] : k \in 0..MaxTokens}}

\* Replies whose score is written as a decimal number.
DecimalReplies ==
    {<<"8", ".", "5">> \o TxtSlash10,
     <<"S", "c", "o", "r", "e", ":", " ", "8", ".", "5">> \o TxtSlash10,
     <<"9", ".", "5">> \o TxtOutOf10,
     <<"6", ".", "9">> \o TxtSlash10 \o <<",", " ", "a", "p", "p", "r", "o", "v", "e", "d">>,
     <<"7", ".", "0">> \o TxtSlash10}

\* The checklist of a lite review reply (the CHECKLIST RESULTS block of the
\* ReviewAgentLite instruction): one line per category, PASS or FAIL.
Categories == <<"Geographic", "Activity Count", "Costs", "Interests", "Timing">>

CategoryLabel(c) ==
    CASE c = "Geographic" -> <<"G", "e", "o", "g", "r", "a", "p", "h", "i", "c">>
      [] c = "Activity Count" ->
             <<"A", "c", "t", "i", "v", "i", "t", "y", " ", "C", "o", "u", "n", "t">>
      [] c = "Costs" -> <<"C", "o", "s", "t", "s">>
      [] c = "Interests" -> <<"I", "n", "t", "e", "r", "e", "s", "t", "s">>
      [] c = "Timing" -> <<"T", "i", "m", "i", "n", "g">>

ChecklistLine(c, verdict) ==
    CategoryLabel(c) \o <<":", " ">>
    \o (IF verdict = "FAIL" THEN <<"F", "A", "I", "L">> ELSE <<"P", "A", "S", "S">>)
    \o <<"\n">>

ChecklistVerdicts == [{Categories[k] : k \in 1..Len(Categories)} -> {"PASS", "FAIL"}]

ChecklistText(v) == Concat([k \in 1..Len(Categories) |-> ChecklistLine(Categories[k], v[Categories[k]])])

ChecklistTexts == {ChecklistText(v) : v \in ChecklistVerdicts}

-----------------------------------------------------------------------------
(* The state of a run.                                                     *)

NoResearch == [destination |-> ""]

NoFeedback == [given |-> FALSE, text |-> <<>>]
\* plan(...) called without the review_feedback argument.
Feedback_Dropped(text) == NoFeedback
Feedback(text) == [given |-> TRUE, text |-> text]

NoItinerary ==
    [draft |-> 0, review_feedback |-> NoFeedback, destination |-> "",
     start_date |-> <<>>, end_date |-> <<>>, duration_days |-> 0,
     total_estimated_cost |-> 0]

\* _parse_itinerary_response: daily_costs.get(budget_level, mid-range) summed.
daily_total(budget_level) ==
    CASE budget_level = "budget" -> 50 + 30 + 20 + 15
      [] budget_level = "luxury" -> 300 + 150 + 150 + 80
      [] OTHER -> 120 + 60 + 50 + 30

\* _parse_itinerary_response: flight_estimates.get(budget_level, 800)
flight_cost(budget_level) ==
    CASE budget_level = "budget" -> 500
      [] budget_level = "luxury" -> 1500
      [] OTHER -> 800

\* budget_calc["total"] with the nights of the trip in place of its days.
total_budget_Nights(ti) ==
    daily_total(ti.preferences.budget_level) * (duration_days(ti.dates).value - 1)
    + flight_cost(ti.preferences.budget_level)

\* _parse_itinerary_response: budget_calc["total"]
total_budget(ti) ==
    daily_total(ti.preferences.budget_level) * duration_days(ti.dates).value
    + flight_cost(ti.preferences.budget_level)

\* The TripItinerary the Plan stage returns: draft counts the Plan calls of the
\* run, so it names the reply (generated_itinerary) the draft was built from.
Itinerary(ti, n, feedback) ==
    [draft |-> n, review_feedback |-> feedback, destination |-> ti.destination,
     start_date |-> ti.dates.start_date, end_date |-> ti.dates.end_date,
     duration_days |-> duration_days(ti.dates).value,
     total_estimated_cost |-> total_budget(ti)]

\* OrchestratorAgentCapstone.__init__: self.metrics (the wall-clock fields
\* research_time, planning_time and total_time are not modelled).
InitMetrics == [review_iterations |-> 0, success |-> FALSE]

NoCalls == [research |-> 0, plan |-> 0, review |-> 0]

\* No generation call has raised; Failed: the call of a stage raised error,
\* when the run had made the calls made_calls.
NoFailure == [stage |-> "none", error |-> NoException, made_calls |-> NoCalls]
Failed(stage, e, made_calls) == [stage |-> stage, error |-> e, made_calls |-> made_calls]

NoAgents == [research |-> "None", planning |-> "None", review |-> "None"]

\* load_agents_for_model: the three agent classes of the model's tier
load_agents_for_model(model_name) ==
    IF get_model_tier(model_name) = "lite"
    THEN [research |-> "ResearchAgentLite", planning |-> "PlanningAgentLite",
          review |-> "ReviewAgentLite"]
    ELSE [research |-> "ResearchAgentPro", planning |-> "PlanningAgentPro",
          review |-> "ReviewAgentPro"]

\* The clock values of the model, in seconds.
MaxClock == 2
Stamps == 0..MaxClock

\* datetime.now().strftime('%Y%m%d_%H%M%S'): the timestamp, to the second.
strftime(now) == now

NoFile == [exists |-> FALSE]

\* A directory without files.
EmptyDir == [stamp \in Stamps |-> NoFile]

\* PersistentSessionManager.save_session: open(session_file, 'w') replaces
\* the file of that session id.
save_session(files, p_session_id, data, now) ==
    [files EXCEPT ![p_session_id] = [exists |-> TRUE, data |-> data, saved_at |-> now]]

\* PersistentSessionManager.save_trip_session (a TripItinerary is truthy)
save_trip_session(files, p_session_id, ti, itinerary, metadata, now) ==
    save_session(files, p_session_id,
                 [session_id |-> p_session_id,
                  destination |-> ti.destination,
                  dates |-> [start |-> ti.dates.start_date, end |-> ti.dates.end_date,
                             duration |-> duration_days(ti.dates).value],
                  preferences |-> [budget |-> ti.preferences.budget_level,
                                   pace |-> ti.preferences.pace_preference],
                  itinerary_generated |-> TRUE,
                  total_cost |-> itinerary.total_estimated_cost,
                  metadata |-> metadata],
                 now)

\* ObservabilityPlugin.metrics as finalize dumps it: the session id and the
\* errors logged.
PluginMetrics(p_session_id, errors) == [session_id |-> p_session_id, errors |-> errors]

\* ObservabilityPlugin.finalize: logs/metrics_<timestamp>.json is opened
\* with 'w' and the plugin's metrics are dumped into it.
finalize(files, now, plugin_metrics) ==
    [files EXCEPT ![strftime(now)] = [exists |-> TRUE, data |-> plugin_metrics]]

\* The metadata plan_trip hands to save_trip_session (the time strings are
\* not modelled).
SessionMetadata_AfterIncrement(p_iteration) == [review_iterations |-> p_iteration + 1]
SessionMetadata(p_iteration) == [review_iterations |-> p_iteration]

NoRuns == <<>>
NoEvaluation == [raised |-> "unset"]
\* No WeatherAPI call is made; no ObservabilityPlugin callback is observed.
NoWeather == [pc |-> "none"]
NoPlugin == [pc |-> "none"]

\* Nothing is stored and no time has passed.
IdleStore ==
    /\ clock = 0
    /\ session_id = "None"
    /\ session_files = EmptyDir
    /\ log_files = EmptyDir
    /\ runs = NoRuns
    /\ evaluation = NoEvaluation

\* No weather call and no plugin callback is under observation.
IdleTools ==
    /\ weather = NoWeather
    /\ plugin = NoPlugin

Idle ==
    /\ agents = NoAgents
    /\ research_data = NoResearch
    /\ current_itinerary = NoItinerary
    /\ review_result = NoReview
    /\ approved = FALSE
    /\ max_iterations = 0
    /\ metrics = InitMetrics
    /\ raised = Passed
    /\ returned = NoItinerary
    /\ calls = NoCalls
    /\ replies = <<>>
    /\ failure = NoFailure

-----------------------------------------------------------------------------
(* planner_main.main_async and OrchestratorAgentCapstone.plan_trip.  The   *)
(* coroutine is suspended at one await at a time; an action is the return  *)
(* (or the raise) of the awaited generation call together with the code    *)
(* that runs up to the next await or to the end of plan_trip.              *)

Init ==
    /\ pc = "main"
    /\ MODEL_NAME \in ModelNames
    /\ trip_input \in RunInputs
    /\ iteration = 0
    /\ response_text = <<>>
    /\ Idle
    /\ IdleStore
    /\ IdleTools

\* The end of plan_trip's try block: the plugin is finalized and the session
\* is saved with the iteration count.
FinishRun(p_itinerary, p_iteration) ==
    /\ log_files' = finalize(log_files, clock, PluginMetrics(session_id, 0))
    /\ session_files' =
           save_trip_session(session_files, session_id, trip_input, p_itinerary,
                             SessionMetadata(p_iteration), clock)

\* The except clause without its `raise`: the exception is swallowed and
\* plan_trip returns.
HandleException_Swallow(e) ==
    /\ metrics' = [metrics EXCEPT !.success = FALSE]
    /\ raised' = raised
    /\ pc' = "returned"
    /\ log_files' = finalize(log_files, clock, PluginMetrics(session_id, 1))

\* The except clause of plan_trip: success = False, and the same exception
\* is raised again.
HandleException(e) ==
    /\ metrics' = [metrics EXCEPT !.success = FALSE]
    /\ raised' = [raised |-> e, message |-> ""]
    /\ pc' = "raised"
    /\ log_files' = finalize(log_files, clock, PluginMetrics(session_id, 1))

\* main_async without the validate_trip_input call of load_trip_input.
Main_SkipValidation ==
    /\ pc = "main"
    /\ pc' = "research"
    /\ agents' = load_agents_for_model(MODEL_NAME)
    /\ metrics' = InitMetrics
    /\ UNCHANGED <<MODEL_NAME, trip_input, research_data, current_itinerary, review_result,
                   approved, iteration, max_iterations, raised, response_text, returned, calls,
                   replies, failure>>
    /\ session_id' = strftime(clock)
    /\ UNCHANGED <<clock, session_files, log_files, runs, evaluation, weather, plugin>>

\* main_async up to the first await of plan_trip: load_trip_input validates
\* (an exception leaves main_async there), the orchestrator is constructed
\* and plan_trip loads the agent classes of the current model name.
Main ==
    /\ pc = "main"
    /\ LET v == validate_trip_input(trip_input)
       IN  IF v.raised # NoException
           THEN /\ pc' = "rejected"
                /\ raised' = v
                /\ UNCHANGED <<agents, metrics, session_id>>
           ELSE /\ pc' = "research"
                /\ agents' = load_agents_for_model(MODEL_NAME)
                /\ metrics' = InitMetrics
                /\ session_id' = strftime(clock)
                /\ UNCHANGED raised
    /\ UNCHANGED <<MODEL_NAME, trip_input, research_data, current_itinerary, review_result,
                   approved, iteration, max_iterations, response_text, returned, calls,
                   replies, failure>>
    /\ UNCHANGED <<clock, session_files, log_files, runs, evaluation, weather, plugin>>

\* research_agent.research(trip_input) without its await: plan_trip goes on to
\* the Plan call while no research has run.
ResearchReturns_NotAwaited ==
    /\ pc = "research"
    /\ pc' = "plan"
    /\ UNCHANGED <<MODEL_NAME, trip_input, agents, research_data, current_itinerary,
                   review_result, approved, iteration, max_iterations, metrics, raised,
                   response_text, returned, calls, replies, failure>>
    /\ UNCHANGED <<clock, session_id, session_files, log_files, runs, evaluation, weather, plugin>>

\* research_agent.research returns.
ResearchReturns ==
    /\ pc = "research"
    /\ calls' = [calls EXCEPT !.research = @ + 1]
    /\ research_data' = [destination |-> trip_input.destination]
    /\ pc' = "plan"
    /\ UNCHANGED <<MODEL_NAME, trip_input, agents, current_itinerary, review_result, approved,
                   iteration, max_iterations, metrics, raised, response_text, returned,
                   replies, failure>>
    /\ UNCHANGED <<clock, session_id, session_files, log_files, runs, evaluation, weather, plugin>>

\* research_agent.research raises e.
ResearchRaises(e) ==
    /\ pc = "research"
    /\ calls' = [calls EXCEPT !.research = @ + 1]
    /\ failure' = Failed("research", e, calls')
    /\ HandleException(e)
    /\ UNCHANGED <<MODEL_NAME, trip_input, agents, research_data, current_itinerary,
                   review_result, approved, iteration, max_iterations, response_text,
                   returned, replies>>
    /\ UNCHANGED <<clock, session_id, session_files, runs, evaluation, weather, plugin>>

\* The while condition of the refinement loop.
LoopContinues_Strict(p_approved, p_iteration, p_max) == ~p_approved /\ p_iteration < p_max
LoopContinues(p_approved, p_iteration, p_max) == ~p_approved /\ p_iteration <= p_max

\* `if iteration < max_iterations`: a rejected draft is refined only while
\* the budget is not used up.
MayRefine_OffByOne(p_iteration, p_max) == p_iteration + 1 < p_max
MayRefine_Inclusive(p_iteration, p_max) == p_iteration <= p_max
MayRefine(p_iteration, p_max) == p_iteration < p_max

\* The first planning_agent.plan returns; the loop is set up (approved,
\* iteration, max_iterations) and entered.
PlanReturns ==
    /\ pc = "plan"
    /\ calls' = [calls EXCEPT !.plan = @ + 1]
    /\ current_itinerary' = Itinerary(trip_input, calls.plan + 1, NoFeedback)
    /\ approved' = FALSE
    /\ iteration' = 1
    /\ max_iterations' = get_max_iterations(MODEL_NAME)
    /\ IF LoopContinues(approved', iteration', max_iterations')
       THEN pc' = "review" /\ UNCHANGED <<metrics, returned, session_files, log_files>>
       ELSE /\ pc' = "returned"
            /\ metrics' = [metrics EXCEPT !.success = TRUE]
            /\ returned' = current_itinerary'
            /\ FinishRun(current_itinerary', iteration')
    /\ UNCHANGED <<MODEL_NAME, trip_input, agents, research_data, review_result, raised,
                   response_text, replies, failure>>
    /\ UNCHANGED <<clock, session_id, runs, evaluation, weather, plugin>>

\* The first planning_agent.plan raises e.
PlanRaises(e) ==
    /\ pc = "plan"
    /\ calls' = [calls EXCEPT !.plan = @ + 1]
    /\ failure' = Failed("plan", e, calls')
    /\ HandleException(e)
    /\ UNCHANGED <<MODEL_NAME, trip_input, agents, research_data, current_itinerary,
                   review_result, approved, iteration, max_iterations, response_text,
                   returned, replies>>
    /\ UNCHANGED <<clock, session_id, session_files, runs, evaluation, weather, plugin>>

\* review_agent.review: the generation service replies with text, the reply
\* is parsed, and the loop body runs on to the re-plan await or to the end.
ReviewReturns(text) ==
    /\ pc = "review"
    /\ calls' = [calls EXCEPT !.review = @ + 1]
    /\ response_text' = text
    /\ replies' = Append(replies, text)
    /\ LET rr == parse_review_response(agents.review, text, iteration, MODEL_NAME)
       IN  IF rr.raised # NoException
           THEN /\ HandleException(rr.raised)
                /\ UNCHANGED <<review_result, approved, returned, session_files>>
           ELSE /\ review_result' = rr
                /\ raised' = raised
                /\ IF rr.approved \/ ~MayRefine(iteration, max_iterations)
                   THEN \* approved, or the budget is used up: approved = True,
                        \* the loop ends and plan_trip finishes
                        /\ approved' = TRUE
                        /\ metrics' = [review_iterations |-> iteration, success |-> TRUE]
                        /\ returned' = current_itinerary
                        /\ FinishRun(current_itinerary, iteration)
                        /\ pc' = "returned"
                   ELSE /\ metrics' = [metrics EXCEPT !.review_iterations = iteration]
                        /\ pc' = "replan"
                        /\ UNCHANGED <<approved, returned, session_files, log_files>>
    /\ UNCHANGED <<MODEL_NAME, trip_input, agents, research_data, current_itinerary,
                   iteration, max_iterations, failure>>
    /\ UNCHANGED <<clock, session_id, runs, evaluation, weather, plugin>>

\* review_agent.review raises e.
ReviewRaises(e) ==
    /\ pc = "review"
    /\ calls' = [calls EXCEPT !.review = @ + 1]
    /\ failure' = Failed("review", e, calls')
    /\ HandleException(e)
    /\ UNCHANGED <<MODEL_NAME, trip_input, agents, research_data, current_itinerary,
                   review_result, approved, iteration, max_iterations, response_text,
                   returned, replies>>
    /\ UNCHANGED <<clock, session_id, session_files, runs, evaluation, weather, plugin>>

\* The re-plan call returns but its draft is dropped: the held one is kept.
ReplanReturns_KeepsDraft ==
    /\ pc = "replan"
    /\ calls' = [calls EXCEPT !.plan = @ + 1]
    /\ iteration' = iteration + 1
    /\ pc' = "review"
    /\ UNCHANGED <<MODEL_NAME, trip_input, agents, research_data, current_itinerary,
                   review_result, approved, max_iterations, metrics, raised,
                   response_text, returned, replies, failure, log_files>>
    /\ UNCHANGED <<clock, session_id, session_files, runs, evaluation, weather, plugin>>

\* The re-plan call returns: the draft is replaced, iteration += 1 and the
\* while condition is tested again.
ReplanReturns ==
    /\ pc = "replan"
    /\ calls' = [calls EXCEPT !.plan = @ + 1]
    /\ current_itinerary' =
           Itinerary(trip_input, calls.plan + 1, Feedback(review_result.review_summary))
    /\ iteration' = iteration + 1
    /\ IF LoopContinues(approved, iteration', max_iterations)
       THEN pc' = "review" /\ UNCHANGED <<metrics, returned, session_files, log_files>>
       ELSE /\ pc' = "returned"
            /\ metrics' = [metrics EXCEPT !.success = TRUE]
            /\ returned' = current_itinerary'
            /\ FinishRun(current_itinerary', iteration')
    /\ UNCHANGED <<MODEL_NAME, trip_input, agents, research_data, review_result, approved,
                   max_iterations, raised, response_text, replies, failure>>
    /\ UNCHANGED <<clock, session_id, runs, evaluation, weather, plugin>>

\* The re-plan call raises e.
ReplanRaises(e) ==
    /\ pc = "replan"
    /\ calls' = [calls EXCEPT !.plan = @ + 1]
    /\ failure' = Failed("replan", e, calls')
    /\ HandleException(e)
    /\ UNCHANGED <<MODEL_NAME, trip_input, agents, research_data, current_itinerary,
                   review_result, approved, iteration, max_iterations, response_text,
                   returned, replies>>
    /\ UNCHANGED <<clock, session_id, session_files, runs, evaluation, weather, plugin>>

Next ==
    \/ Main
    \/ ResearchReturns
    \/ \E e \in GenerationErrors : ResearchRaises(e)
    \/ PlanReturns
    \/ \E e \in GenerationErrors : PlanRaises(e)
    \/ \E text \in ReviewReplies : ReviewReturns(text)
    \/ \E e \in GenerationErrors : ReviewRaises(e)
    \/ ReplanReturns
    \/ \E e \in GenerationErrors : ReplanRaises(e)

Spec == Init /\ [][Next]_vars

-----------------------------------------------------------------------------
(* A run during which other code assigns Config.MODEL_NAME, a class        *)
(* attribute every caller can set (as tests/test_config.py does).          *)

\* Config.MODEL_NAME = name, while plan_trip is suspended at an await.  The
\* specification follows one change of tier per run.
SetModelName(name) ==
    /\ pc \in {"research", "plan", "review", "replan"}
    /\ load_agents_for_model(MODEL_NAME) = agents
    /\ get_model_tier(name) # get_model_tier(MODEL_NAME)
    /\ MODEL_NAME' = name
    /\ UNCHANGED <<trip_input, pc, agents, research_data, current_itinerary, review_result,
                   approved, iteration, max_iterations, metrics, raised, response_text,
                   returned, calls, replies, failure, clock, session_id, session_files,
                   log_files, runs, evaluation, weather, plugin>>

NextReconfig ==
    \/ Next
    \/ \E name \in ModelNames : SetModelName(name)

SpecReconfig == Init /\ [][NextReconfig]_vars

-----------------------------------------------------------------------------
(* Two plan_trip coroutines on one event loop, each on its own             *)
(* OrchestratorAgentCapstone.  A coroutine runs from one await to the      *)
(* next without interruption; the clock, the directories .sessions/ and    *)
(* logs/ and Config are shared.  runs[r] holds the locals and the          *)
(* orchestrator of run r.                                                  *)

Runs == {1, 2}

ConcurrentReplies == {ReplyNeedsRevision, ReplyApproved}

RunTripInput(r) ==
    TripInputOf(IF r = 1 THEN "Tokyo, Japan" ELSE "Paris, France",
                Date20260401, Date20260410, "mid-range", "moderate")

IdleRun(ti) ==
    [pc |-> "start", trip_input |-> ti, session_id |-> "None", agents |-> NoAgents,
     iteration |-> 0, max_iterations |-> 0, approved |-> FALSE, plans |-> 0,
     current_itinerary |-> NoItinerary, review_result |-> NoReview,
     returned |-> NoItinerary, metrics |-> InitMetrics, log_file |-> "None",
     raised |-> NoException]

InitConcurrent ==
    /\ pc = "concurrent"
    /\ MODEL_NAME \in {NameFlashLite, NameFlash}
    /\ trip_input = RunTripInput(1)
    /\ iteration = 0
    /\ response_text = <<>>
    /\ Idle
    /\ clock = 0
    /\ session_id = "None"
    /\ session_files = EmptyDir
    /\ log_files = EmptyDir
    /\ runs = [r \in Runs |-> IdleRun(RunTripInput(r))]
    /\ evaluation = NoEvaluation
    /\ weather = NoWeather
    /\ plugin = NoPlugin

\* What the concurrent specification leaves alone: the locals of Spec's run.
SingleRunUnchanged ==
    UNCHANGED <<MODEL_NAME, trip_input, pc, agents, research_data, current_itinerary,
                review_result, approved, iteration, max_iterations, metrics, raised,
                response_text, returned, calls, replies, failure, session_id, evaluation,
                weather, plugin>>

\* A second passes.
Tick ==
    /\ clock < MaxClock
    /\ clock' = clock + 1
    /\ UNCHANGED <<session_files, log_files, runs>>
    /\ SingleRunUnchanged

\* plan_trip of run r up to the research await: the session id is made from
\* the clock and the agent classes are loaded.
RunStart(r) ==
    /\ runs[r].pc = "start"
    /\ runs' = [runs EXCEPT ![r] = [@ EXCEPT !.pc = "research",
                                             !.session_id = strftime(clock),
                                             !.agents = load_agents_for_model(MODEL_NAME)]]
    /\ UNCHANGED <<clock, session_files, log_files>>
    /\ SingleRunUnchanged

\* research_agent.research of run r returns.
RunResearchReturns(r) ==
    /\ runs[r].pc = "research"
    /\ runs' = [runs EXCEPT ![r] = [@ EXCEPT !.pc = "plan"]]
    /\ UNCHANGED <<clock, session_files, log_files>>
    /\ SingleRunUnchanged

\* The first planning_agent.plan of run r returns and the loop is set up.
RunPlanReturns(r) ==
    /\ runs[r].pc = "plan"
    /\ runs' = [runs EXCEPT ![r] =
                   [@ EXCEPT !.pc = "review",
                             !.plans = 1,
                             !.current_itinerary = Itinerary(runs[r].trip_input, 1, NoFeedback),
                             !.approved = FALSE,
                             !.iteration = 1,
                             !.max_iterations = get_max_iterations(MODEL_NAME)]]
    /\ UNCHANGED <<clock, session_files, log_files>>
    /\ SingleRunUnchanged

\* The end of run r's try block: finalize, save_trip_session, return.
RunFinish(r, run) ==
    /\ log_files' = finalize(log_files, clock, PluginMetrics(run.session_id, 0))
    /\ session_files' =
           save_trip_session(session_files, run.session_id, run.trip_input,
                             run.current_itinerary, SessionMetadata(run.iteration), clock)
    /\ runs' = [runs EXCEPT ![r] =
                   [run EXCEPT !.pc = "returned",
                               !.approved = TRUE,
                               !.metrics = [review_iterations |-> run.iteration,
                                            success |-> TRUE],
                               !.log_file = strftime(clock),
                               !.returned = run.current_itinerary]]

\* The except clause of run r: log_error, finalize(0), raise.
RunHandleException(r, run, e) ==
    /\ log_files' = finalize(log_files, clock, PluginMetrics(run.session_id, 1))
    /\ runs' = [runs EXCEPT ![r] =
                   [run EXCEPT !.pc = "raised",
                               !.metrics = [@ EXCEPT !.success = FALSE],
                               !.log_file = strftime(clock),
                               !.raised = e]]
    /\ UNCHANGED session_files

\* review_agent.review of run r returns with the reply text.
RunReviewReturns(r, text) ==
    /\ runs[r].pc = "review"
    /\ LET run == runs[r]
           rr == parse_review_response(run.agents.review, text, run.iteration, MODEL_NAME)
       IN  IF rr.raised # NoException
           THEN RunHandleException(r, run, rr.raised)
           ELSE IF rr.approved \/ ~MayRefine(run.iteration, run.max_iterations)
                THEN RunFinish(r, [run EXCEPT !.review_result = rr])
                ELSE /\ runs' = [runs EXCEPT ![r] =
                                    [run EXCEPT !.pc = "replan",
                                                !.review_result = rr,
                                                !.metrics = [@ EXCEPT !.review_iterations =
                                                                          run.iteration]]]
                     /\ UNCHANGED <<session_files, log_files>>
    /\ UNCHANGED clock
    /\ SingleRunUnchanged

\* The re-plan call of run r returns.
RunReplanReturns(r) ==
    /\ runs[r].pc = "replan"
    /\ LET run == runs[r]
           next_run ==
               [run EXCEPT !.plans = @ + 1,
                           !.current_itinerary =
                               Itinerary(run.trip_input, run.plans + 1,
                                         Feedback(run.review_result.review_summary)),
                           !.iteration = @ + 1]
       IN  IF LoopContinues(next_run.approved, next_run.iteration, next_run.max_iterations)
           THEN /\ runs' = [runs EXCEPT ![r] = [next_run EXCEPT !.pc = "review"]]
                /\ UNCHANGED <<session_files, log_files>>
           ELSE RunFinish(r, next_run)
    /\ UNCHANGED clock
    /\ SingleRunUnchanged

\* The generation call run r is waiting for raises e.
RunCallRaises(r, e) ==
    /\ runs[r].pc \in {"research", "plan", "review", "replan"}
    /\ RunHandleException(r, runs[r], e)
    /\ UNCHANGED clock
    /\ SingleRunUnchanged

NextConcurrent ==
    \/ Tick
    \/ \E r \in Runs : RunStart(r)
    \/ \E r \in Runs : RunResearchReturns(r)
    \/ \E r \in Runs : RunPlanReturns(r)
    \/ \E r \in Runs, text \in ConcurrentReplies : RunReviewReturns(r, text)
    \/ \E r \in Runs : RunReplanReturns(r)
    \/ \E r \in Runs : RunCallRaises(r, "RateLimitError")

SpecConcurrent == InitConcurrent /\ [][NextConcurrent]_vars

-----------------------------------------------------------------------------
(* TripPlannerEvaluator (src/evaluation/evaluator.py).  A score is kept    *)
(* exactly, as a fraction <<numerator, denominator>>, until round(x, 2)    *)
(* turns it into a whole number of hundredths (938 stands for 9.38).       *)

RECURSIVE GCD(_, _)
GCD(a, b) == IF b = 0 THEN a ELSE GCD(b, a % b)

Abs(n) == IF n < 0 THEN -n ELSE n

\* The fraction n/d in lowest terms, d > 0.
Q(n, d) == LET g == GCD(Abs(n), d) IN IF g = 0 THEN <<0, 1>> ELSE <<n \div g, d \div g>>
QAdd(a, b) == Q(a[1] * b[2] + b[1] * a[2], a[2] * b[2])
QSub(a, b) == Q(a[1] * b[2] - b[1] * a[2], a[2] * b[2])
QLess(a, b) == a[1] * b[2] < b[1] * a[2]
QMin(a, b) == IF QLess(b, a) THEN b ELSE a
QMax(a, b) == IF QLess(a, b) THEN b ELSE a
QAbs(a) == <<Abs(a[1]), a[2]>>

\* round(x, 2) of a fraction x >= 0, in hundredths; a tie goes to the even
\* neighbour.
Round2(a) ==
    LET n == a[1] * 100
        q == n \div a[2]
        r == n % a[2]
    IN  IF 2 * r < a[2] THEN q
        ELSE IF 2 * r > a[2] THEN q + 1
        ELSE IF q % 2 = 0 THEN q ELSE q + 1

Max2(a, b) == IF a < b THEN b ELSE a

RECURSIVE SumSeq(_)
SumSeq(s) == IF s = <<>> THEN 0 ELSE Head(s) + SumSeq(Tail(s))

\* evaluation_criteria["performance"]: the target seconds
TargetResearchSpeed == 30
TargetPlanningSpeed == 30
TargetTotalTime == 120

\* _evaluate_performance
evaluate_performance(m) ==
    LET research_score == QMin(<<10, 1>>, Q(TargetResearchSpeed * 10, Max2(m.research_time, 1)))
        planning_score == QMin(<<10, 1>>, Q(TargetPlanningSpeed * 10, Max2(m.planning_time, 1)))
        total_score == QMin(<<10, 1>>, Q(TargetTotalTime * 10, Max2(m.total_time, 1)))
        iteration_score == <<10 - (m.review_iterations - 1) * 2, 1>>
        total == QAdd(QAdd(research_score, planning_score), QAdd(total_score, iteration_score))
        perf_score == Q(total[1], total[2] * 4)
    IN  Round2(QMin(<<10, 1>>, QMax(<<0, 1>>, perf_score)))

\* budget_levels.get(budget_level, 200)
expected_daily_budget(budget_level) ==
    CASE budget_level = "budget" -> 100
      [] budget_level = "luxury" -> 400
      [] OTHER -> 200

\* len(day.morning_activities) + len(day.afternoon_activities) + len(day.evening_activities)
day_activities(day) ==
    Len(day.morning_activities) + Len(day.afternoon_activities) + Len(day.evening_activities)

\* _evaluate_quality: [raised, value]; the division by itinerary.duration_days
\* raises ZeroDivisionError when duration_days is 0.
evaluate_quality(ti, it) ==
    LET n == Len(it.day_plans)
        total_activities == SumSeq([k \in 1..n |-> day_activities(it.day_plans[k])])
        activity_score == QMin(<<10, 1>>, Q(total_activities * 2, Max2(n, 1)))
        daily_budget == Q(it.total_estimated_cost, Max2(it.duration_days, 1))
        expected == expected_daily_budget(ti.preferences.budget_level)
        diff == QAbs(QSub(daily_budget, <<expected, 1>>))
        budget_diff == Q(diff[1], diff[2] * expected)
        budget_score == QMax(<<0, 1>>, QSub(<<10, 1>>, Q(budget_diff[1] * 10, budget_diff[2])))
        details_score ==
            QMin(<<10, 1>>, Q(Len(it.packing_list) + Len(it.important_notes), 2))
    IN  IF it.duration_days # n /\ it.duration_days = 0
        THEN [raised |-> "ZeroDivisionError", value |-> 0]
        ELSE LET completeness ==
                     IF it.duration_days = n THEN <<10, 1>> ELSE Q(n * 10, it.duration_days)
                 total == QAdd(QAdd(completeness, activity_score),
                               QAdd(budget_score, details_score))
             IN  [raised |-> NoException, value |-> Round2(Q(total[1], total[2] * 4))]

\* evaluation_criteria["features"]
required_features ==
    <<<<"g", "o", "o", "g", "l", "e", "_", "s", "e", "a", "r", "c", "h">>,
      <<"c", "o", "d", "e", "_", "e", "x", "e", "c", "u", "t", "i", "o",
      "n">>,
      <<"s", "e", "s", "s", "i", "o", "n", "s">>,
      <<"m", "e", "m", "o", "r", "y">>,
      <<"o", "b", "s", "e", "r", "v", "a", "b", "i", "l", "i", "t", "y">>,
      <<"s", "e", "q", "u", "e", "n", "t", "i", "a", "l", "_", "a", "g", "e",
      "n", "t", "s">>,
      <<"l", "o", "o", "p", "_", "a", "g", "e", "n", "t">>>>

\* get_evaluation_metrics: features_used; the last entry is None when code
\* execution is disabled.
FeaturesUsed(enable_code_execution) ==
    <<<<"S", "e", "q", "u", "e", "n", "t", "i", "a", "l", " ", "A", "g", "e",
      "n", "t", "s">>,
      <<"L", "o", "o", "p", " ", "A", "g", "e", "n", "t">>,
      <<"B", "u", "i", "l", "t", "-", "i", "n", " ", "g", "o", "o", "g", "l",
      "e", "_", "s", "e", "a", "r", "c", "h">>,
      <<"S", "e", "s", "s", "i", "o", "n", "s", " ", "&", " ", "M", "e", "m",
      "o", "r", "y">>,
      <<"O", "b", "s", "e", "r", "v", "a", "b", "i", "l", "i", "t", "y">>,
      IF enable_code_execution
      THEN <<"C", "o", "d", "e", " ", "E", "x", "e", "c", "u", "t", "i", "o",
           "n">>
      ELSE <<"N", "o", "n", "e">>>>

\* _evaluate_features
evaluate_features(m) ==
    LET used_count ==
            Cardinality({f \in 1..Len(required_features) :
                \E u \in 1..Len(m.features_used) :
                    Contains(lower(m.features_used[u]), lower(required_features[f]))})
    IN  Round2(Q(used_count * 10, Len(required_features)))

\* The characters of a destination.
DestinationText(d) ==
    CASE d = "Tokyo, Japan" -> <<"T", "o", "k", "y", "o", ",", " ", "J", "a", "p", "a", "n">>
      [] d = "Paris, France" -> <<"P", "a", "r", "i", "s", ",", " ", "F", "r", "a", "n", "c", "e">>
      [] OTHER -> <<>>

\* _evaluate_satisfaction
evaluate_satisfaction(ti, it) ==
    LET s1 == IF it.duration_days = duration_days(ti.dates).value THEN 10 ELSE 5
        s2 == IF Contains(lower(DestinationText(it.destination)),
                          lower(DestinationText(ti.destination))) THEN 10 ELSE 5
        s3 == IF Len(it.generated_itinerary) > 100 THEN 10 ELSE 5
        s4 == IF \A k \in 1..Len(it.day_plans) :
                     /\ it.day_plans[k].morning_activities # <<>>
                     /\ it.day_plans[k].afternoon_activities # <<>>
              THEN 10 ELSE 7
    IN  Round2(Q(s1 + s2 + s3 + s4, 4))

\* _get_grade, of a score given as a fraction
get_grade(score) ==
    IF ~QLess(score, <<9, 1>>) THEN "A+ (Excellent)"
    ELSE IF ~QLess(score, <<8, 1>>) THEN "A (Very Good)"
    ELSE IF ~QLess(score, <<7, 1>>) THEN "B (Good)"
    ELSE IF ~QLess(score, <<6, 1>>) THEN "C (Acceptable)"
    ELSE "D (Needs Improvement)"

\* TripPlannerEvaluator.evaluate (the recommendations, texts chosen by the
\* scores, are not modelled).  Scores are in hundredths; the weights 0.2,
\* 0.4, 0.2, 0.2 are 2/10, 4/10, 2/10, 2/10.
evaluate(ti, it, m) ==
    LET perf_score == evaluate_performance(m)
        quality == evaluate_quality(ti, it)
        feature_score == evaluate_features(m)
        satisfaction_score == evaluate_satisfaction(ti, it)
        overall == Q(perf_score * 2 + quality.value * 4 + feature_score * 2
                         + satisfaction_score * 2, 1000)
    IN  IF quality.raised # NoException
        THEN [raised |-> quality.raised]
        ELSE [raised |-> NoException,
              trip_destination |-> ti.destination,
              scores |-> [performance |-> perf_score,
                          quality |-> quality.value,
                          feature_coverage |-> feature_score,
                          user_satisfaction |-> satisfaction_score],
              details |-> [performance |-> [review_iterations |-> m.review_iterations],
                           quality |-> [num_day_plans |-> Len(it.day_plans),
                                        budget |-> it.total_estimated_cost,
                                        packing_list_items |-> Len(it.packing_list),
                                        important_notes |-> Len(it.important_notes)]],
              overall_score |-> Round2(overall),
              grade |-> get_grade(overall)]

-----------------------------------------------------------------------------
(* The structured itinerary of the Plan stage                              *)
(* (PlanningAgentCapstone._parse_itinerary_response) and the summaries     *)
(* made of an itinerary: save_trip_session and evaluate.                   *)

\* The day after year y, month m, day d.
NextDay(ymd) ==
    IF ymd[3] < DaysInMonth(ymd[1], ymd[2]) THEN <<ymd[1], ymd[2], ymd[3] + 1>>
    ELSE IF ymd[2] < 12 THEN <<ymd[1], ymd[2] + 1, 1>>
    ELSE <<ymd[1] + 1, 1, 1>>

\* start_date + timedelta(days=k)
RECURSIVE AddDays(_, _)
AddDays(ymd, k) == IF k = 0 THEN ymd ELSE AddDays(NextDay(ymd), k - 1)

\* The decimal digits of n, zero-padded to the given width.
RECURSIVE Digits(_, _)
Digits(n, width) ==
    IF width = 0 THEN <<>> ELSE Append(Digits(n \div 10, width - 1), DigitChars[(n % 10) + 1])

\* strftime("%Y-%m-%d")
FormatDate(ymd) == Digits(ymd[1], 4) \o <<"-">> \o Digits(ymd[2], 2) \o <<"-">> \o Digits(ymd[3], 2)

\* The year, month and day datetime.fromisoformat reads from s.
ParseDate(s) == <<IntOf(SubSeq(s, 1, 4)), IntOf(SubSeq(s, 6, 7)), IntOf(SubSeq(s, 9, 10))>>

\* The DayPlan of day day_num + 1 (title, meals and notes, texts that repeat
\* the day number, are left out).
PlannedDay(ti, day_num) ==
    [day_number |-> day_num + 1,
     date |-> FormatDate(AddDays(ParseDate(ti.dates.start_date), day_num)),
     morning_activities |-> <<<<"Morning activity", day_num + 1, 1>>,
                              <<"Morning activity", day_num + 1, 2>>>>,
     afternoon_activities |-> <<<<"Afternoon activity", day_num + 1, 1>>,
                                <<"Afternoon activity", day_num + 1, 2>>>>,
     evening_activities |-> <<<<"Evening activity", day_num + 1, 1>>>>,
     estimated_cost |-> daily_total(ti.preferences.budget_level)]

PlannedPackingList ==
    <<"Comfortable walking shoes", "Weather-appropriate clothing", "Travel adapter",
      "Portable charger">>

PlannedNotes(ti) ==
    <<<<"Budget level: ", ti.preferences.budget_level>>,
      <<"Pace: ", ti.preferences.pace_preference>>,
      "Book popular attractions in advance">>

\* TripItinerary(...) with the fields the summaries read.
TripItinerary(p_dest, p_start, p_end, p_days, p_plans, p_cost, p_text, p_packing, p_notes) ==
    [destination |-> p_dest, start_date |-> p_start, end_date |-> p_end,
     duration_days |-> p_days, day_plans |-> p_plans,
     total_estimated_cost |-> p_cost, generated_itinerary |-> p_text,
     packing_list |-> p_packing, important_notes |-> p_notes]

\* PlanningAgentCapstone._parse_itinerary_response, for a trip with ISO dates
parse_itinerary_response(p_response_text, ti) ==
    TripItinerary(ti.destination, ti.dates.start_date, ti.dates.end_date,
                  duration_days(ti.dates).value,
                  [k \in 1..duration_days(ti.dates).value |-> PlannedDay(ti, k - 1)],
                  total_budget(ti), p_response_text, PlannedPackingList, PlannedNotes(ti))

\* The longest DayPlan sequence of the hand-built itineraries.
MaxDayPlans == 2

\* A day without activities.
EmptyDay(k) ==
    [day_number |-> k, date |-> Date20260401, morning_activities |-> <<>>,
     afternoon_activities |-> <<>>, evening_activities |-> <<>>, estimated_cost |-> 0]

EvalTripInput(budget, end) == TripInputOf("Tokyo, Japan", Date20260401, end, budget, "moderate")

EvalTripInputs ==
    {EvalTripInput(b, e) : b \in {"budget", "mid-range"}, e \in {Date20260401, Date20260410}}

\* Narrative texts: an empty one, a short one and one of 101 characters.
Narratives == {<<>>, ReplyApproved, [k \in 1..101 |-> "x"]}

DayPlanSeqs ==
    UNION {[1..n -> {"planned", "empty"}] : n \in 0..MaxDayPlans}

\* The itineraries evaluate and save_trip_session are given: what the Plan
\* stage builds for the trip, and TripItinerary objects built from any
\* DayPlan sequence, duration and cost.
EvalItineraries(ti) ==
    {parse_itinerary_response(text, ti) : text \in Narratives \ {<<>>}}
    \cup
    {TripItinerary(dest, ti.dates.start_date, ti.dates.end_date, dur,
                   [k \in 1..Len(kinds) |->
                       IF kinds[k] = "planned" THEN PlannedDay(ti, k - 1) ELSE EmptyDay(k)],
                   cost, text, lists[1], lists[2]) :
        dest \in {"Tokyo, Japan", "Paris, France"},
        dur \in 0..2,
        kinds \in DayPlanSeqs,
        cost \in {0, 200},
        text \in {[k \in 1..100 |-> "x"], [k \in 1..101 |-> "x"]},
        lists \in {<<<<>>, <<>>>>, <<PlannedPackingList, PlannedNotes(ti)>>}}

\* OrchestratorAgentCapstone.get_evaluation_metrics, times in whole seconds
EvalMetrics ==
    {[research_time |-> t[1], planning_time |-> t[2], total_time |-> t[3],
      review_iterations |-> t[4], success |-> TRUE, features_used |-> FeaturesUsed(x)] :
        t \in {<<0, 0, 0, 1>>, <<45, 20, 400, 5>>}, x \in BOOLEAN}

InitEvaluate ==
    /\ pc = "save"
    /\ MODEL_NAME = NameFlashLite
    /\ trip_input \in EvalTripInputs
    /\ current_itinerary \in EvalItineraries(trip_input)
    /\ metrics \in EvalMetrics
    /\ agents = NoAgents
    /\ research_data = NoResearch
    /\ review_result = NoReview
    /\ approved = TRUE
    /\ iteration = metrics.review_iterations
    /\ max_iterations = 0
    /\ raised = Passed
    /\ response_text = <<>>
    /\ returned = current_itinerary
    /\ calls = NoCalls
    /\ replies = <<>>
    /\ failure = NoFailure
    /\ clock = 0
    /\ session_id = strftime(clock)
    /\ session_files = EmptyDir
    /\ log_files = EmptyDir
    /\ runs = NoRuns
    /\ evaluation = NoEvaluation
    /\ weather = NoWeather
    /\ plugin = NoPlugin

\* plan_trip: session_manager.save_trip_session(session_id, trip_input,
\* current_itinerary, metadata)
SaveTripSession ==
    /\ pc = "save"
    /\ session_files' =
           save_trip_session(session_files, session_id, trip_input, current_itinerary,
                             SessionMetadata(iteration), clock)
    /\ pc' = "evaluate"
    /\ UNCHANGED <<MODEL_NAME, trip_input, agents, research_data, current_itinerary,
                   review_result, approved, iteration, max_iterations, metrics, raised,
                   response_text, returned, calls, replies, failure, clock, session_id,
                   log_files, runs, evaluation, weather, plugin>>

\* main_async: eval_results = evaluator.evaluate(trip_input, itinerary, metrics)
Evaluate ==
    /\ pc = "evaluate"
    /\ evaluation' = evaluate(trip_input, current_itinerary, metrics)
    /\ pc' = "evaluated"
    /\ UNCHANGED <<MODEL_NAME, trip_input, agents, research_data, current_itinerary,
                   review_result, approved, iteration, max_iterations, metrics, raised,
                   response_text, returned, calls, replies, failure, clock, session_id,
                   session_files, log_files, runs, weather, plugin>>

NextEvaluate ==
    \/ SaveTripSession
    \/ Evaluate

SpecEvaluate == InitEvaluate /\ [][NextEvaluate]_vars

-----------------------------------------------------------------------------
(* WeatherAPI.get_weather (src/tools/weather_api.py) and its seasonal      *)
(* fallback WeatherTool.get_weather (src/tools/weather_tool.py).  A date   *)
(* argument is a datetime.date object or a str; the recommendation lists   *)
(* of the results are not modelled.                                        *)

DateObject(ymd) == [kind |-> "date", ymd |-> ymd]
StrArg(s) == [kind |-> "str", text |-> s]

TxtTokyo == <<"t", "o", "k", "y", "o">>
TxtKyoto == <<"k", "y", "o", "t", "o">>
TxtOsaka == <<"o", "s", "a", "k", "a">>
TxtJapan == <<"j", "a", "p", "a", "n">>

\* seasonal_data["tokyo"]: temp and season by month
TokyoTemps ==
    <<"5-10°C", "5-12°C", "10-15°C", "14-20°C", "18-24°C", "21-27°C",
      "25-31°C", "26-31°C", "22-27°C", "17-22°C", "12-17°C", "7-12°C">>
TokyoSeasons ==
    <<"Winter", "Winter", "Spring", "Spring", "Spring/Summer", "Summer",
      "Summer", "Summer", "Fall", "Fall", "Fall", "Winter">>

\* The generic seasons of get_seasonal_info.
GenericSeason(month) ==
    CASE month \in {12, 1, 2} -> "Winter"
      [] month \in {3, 4, 5} -> "Spring"
      [] month \in {6, 7, 8} -> "Summer"
      [] month \in {9, 10, 11} -> "Fall"
      [] OTHER -> "Unknown"

\* WeatherTool.get_seasonal_info: the temp and season entries
get_seasonal_info(destination, month) ==
    LET dest_lower == lower(destination)
    IN  CASE dest_lower = TxtTokyo -> [temp |-> TokyoTemps[month], season |-> TokyoSeasons[month]]
          [] dest_lower = TxtKyoto /\ month = 3 -> [temp |-> "8-14°C", season |-> "Spring"]
          [] dest_lower = TxtKyoto /\ month = 4 -> [temp |-> "13-20°C", season |-> "Spring"]
          [] dest_lower = TxtKyoto /\ month = 11 -> [temp |-> "10-17°C", season |-> "Fall"]
          [] dest_lower = TxtOsaka /\ month = 3 -> [temp |-> "9-15°C", season |-> "Spring"]
          [] dest_lower = TxtOsaka /\ month = 4 -> [temp |-> "14-21°C", season |-> "Spring"]
          [] OTHER ->
               IF Contains(dest_lower, TxtJapan)
               THEN [temp |-> TokyoTemps[month], season |-> TokyoSeasons[month]]
               ELSE [temp |-> "Variable", season |-> GenericSeason(month)]

\* A call that raised, and the dictionary a call returned.
WeatherRaised(e) == [raised |-> e]
WeatherDict(destination, start, end, temp, season, daily_forecast, source) ==
    [raised |-> NoException, destination |-> destination, period |-> <<start, end>>,
     average_temp_celsius |-> temp, season |-> season,
     daily_forecast |-> daily_forecast, source |-> source]

\* WeatherTool.get_weather: start_date.month and the strftime calls need
\* date objects; a str has neither.
fallback_get_weather(destination, start_date, end_date) ==
    IF start_date.kind # "date" \/ end_date.kind # "date"
    THEN WeatherRaised("AttributeError")
    ELSE LET seasonal_info == get_seasonal_info(destination, start_date.ymd[2])
         IN  WeatherDict(destination, start_date.ymd, end_date.ymd, seasonal_info.temp,
                         seasonal_info.season, <<>>, "None")

\* _process_forecast: `if isinstance(d, str): d = date.fromisoformat(d)`
as_date(d) ==
    IF d.kind = "date" THEN [raised |-> NoException, ymd |-> d.ymd]
    ELSE IF IsIsoDate(d.text) THEN [raised |-> NoException, ymd |-> ParseDate(d.text)]
    ELSE [raised |-> "ValueError", ymd |-> <<>>]

\* The ordinal day of a date.
Ordinal(ymd) == ToOrdinal(ymd[1], ymd[2], ymd[3])

\* _process_forecast: the forecast dates within the range, sorted.
RECURSIVE SortedDates(_)
SortedDates(S) ==
    IF S = {} THEN <<>>
    ELSE LET d == CHOOSE x \in S : \A y \in S : Ordinal(x) <= Ordinal(y)
         IN  <<d>> \o SortedDates(S \ {d})

\* _fetch_forecast: api is what the two HTTP requests give, a set of
\* forecast dates or the exception they raise.
fetch_forecast(api, destination, start_date, end_date) ==
    IF api.raised # NoException THEN WeatherRaised(api.raised)
    ELSE LET s == as_date(start_date)
             e == as_date(end_date)
         IN  IF s.raised # NoException THEN WeatherRaised(s.raised)
             ELSE IF e.raised # NoException THEN WeatherRaised(e.raised)
             ELSE WeatherDict(destination, s.ymd, e.ymd, "forecast", "None",
                      SortedDates({d \in api.dates :
                          Ordinal(s.ymd) <= Ordinal(d) /\ Ordinal(d) <= Ordinal(e.ymd)}),
                      "None")

\* WeatherAPI.get_weather
get_weather(has_api, api, destination, start_date, end_date) ==
    IF ~has_api
    THEN LET result == fallback_get_weather(destination, start_date, end_date)
         IN  IF result.raised # NoException THEN result
             ELSE [result EXCEPT !.source = "AI Knowledge (No API key provided)"]
    ELSE LET weather_data == fetch_forecast(api, destination, start_date, end_date)
         IN  IF weather_data.raised = NoException
             THEN [weather_data EXCEPT !.source = "OpenWeatherMap API (Real-time)"]
             ELSE LET result == fallback_get_weather(destination, start_date, end_date)
                  IN  IF result.raised # NoException THEN result
                      ELSE [result EXCEPT !.source = "AI Knowledge (API error)"]

\* The arguments of the calls explored.
WeatherDestinations ==
    {<<"T", "o", "k", "y", "o">>, <<"K", "y", "o", "t", "o">>,
     <<"T", "o", "k", "y", "o", ",", " ", "J", "a", "p", "a", "n">>,
     <<"P", "a", "r", "i", "s">>}
WeatherDates ==
    {DateObject(<<2026, 4, 1>>), DateObject(<<2026, 11, 5>>), StrArg(Date20260401),
     StrArg(Date20260410), StrArg(DateInvalid)}
ApiOutcomes ==
    {[raised |-> NoException, dates |-> {}],
     [raised |-> NoException, dates |-> {<<2026, 4, 2>>, <<2026, 4, 1>>, <<2026, 12, 1>>}],
     [raised |-> "HTTPError", dates |-> {}],
     [raised |-> "ValueError", dates |-> {}]}

InitWeather ==
    /\ pc = "weather"
    /\ MODEL_NAME = NameFlashLite
    /\ trip_input = TripInputOf("Tokyo, Japan", Date20260401, Date20260410, "mid-range", "moderate")
    /\ iteration = 0
    /\ response_text = <<>>
    /\ Idle
    /\ IdleStore
    /\ plugin = NoPlugin
    /\ \E has_api \in BOOLEAN, api \in ApiOutcomes, destination \in WeatherDestinations,
          start_date \in WeatherDates, end_date \in WeatherDates :
          weather = [pc |-> "call", has_api |-> has_api, api |-> api,
                     destination |-> destination, start_date |-> start_date,
                     end_date |-> end_date, result |-> WeatherRaised("unset")]

\* result = WeatherAPI().get_weather(destination, start_date, end_date)
GetWeather ==
    /\ weather.pc = "call"
    /\ weather' = [weather EXCEPT
                      !.pc = "done",
                      !.result = get_weather(weather.has_api, weather.api, weather.destination,
                                             weather.start_date, weather.end_date)]
    /\ UNCHANGED <<MODEL_NAME, trip_input, pc, agents, research_data, current_itinerary,
                   review_result, approved, iteration, max_iterations, metrics, raised,
                   response_text, returned, calls, replies, failure, clock, session_id,
                   session_files, log_files, runs, evaluation, plugin>>

NextWeather == GetWeather

SpecWeather == InitWeather /\ [][NextWeather]_vars

-----------------------------------------------------------------------------
(* PlanningAgentCapstone._parse_itinerary_response on its own: the Plan    *)
(* stage parses the reply of every planning call of a run, the first one   *)
(* and each refinement, for the same trip.                                 *)

\* The planning calls of one run that are explored.
MaxPlanCalls == 2

Date20280228 == <<"2", "0", "2", "8", "-", "0", "2", "-", "2", "8">>
Date20280301 == <<"2", "0", "2", "8", "-", "0", "3", "-", "0", "1">>

\* Trips of 1 and 10 days, trips across the end of a year and across a leap
\* day, and a trip whose end is before its start.
PlanDatePairs ==
    {<<Date20260401, Date20260401>>, <<Date20260401, Date20260410>>,
     <<Date20261231, Date20270101>>, <<Date20280228, Date20280301>>,
     <<Date20260410, Date20260401>>}

PlanTripInputs ==
    {TripInputOf(dest, d[1], d[2], b, "moderate") :
        dest \in {"Tokyo, Japan", "Paris, France"}, d \in PlanDatePairs, b \in BudgetLevels}

InitPlanParse ==
    /\ pc = "parse_plan"
    /\ MODEL_NAME = NameFlash
    /\ trip_input \in PlanTripInputs
    /\ iteration = 0
    /\ response_text = <<>>
    /\ Idle
    /\ IdleStore
    /\ IdleTools

\* current_itinerary = self._parse_itinerary_response(response_text,
\* trip_input, research_data), at the end of PlanningAgentCapstone.plan
ParseItinerary(text) ==
    /\ pc = "parse_plan"
    /\ calls.plan < MaxPlanCalls
    /\ calls' = [calls EXCEPT !.plan = @ + 1]
    /\ response_text' = text
    /\ current_itinerary' = parse_itinerary_response(text, trip_input)
    /\ UNCHANGED <<MODEL_NAME, trip_input, pc, agents, research_data, review_result, approved,
                   iteration, max_iterations, metrics, raised, returned, replies, failure,
                   clock, session_id, session_files, log_files, runs, evaluation, weather,
                   plugin>>

NextPlanParse == \E text \in Narratives : ParseItinerary(text)

SpecPlanParse == InitPlanParse /\ [][NextPlanParse]_vars

-----------------------------------------------------------------------------
(* ObservabilityPlugin's agent callbacks on their own                      *)
(* (src/utils/observability_plugin.py): the runner calls                   *)
(* before_agent_callback when an agent execution starts and                *)
(* after_agent_callback when it ends; neither callback awaits, so each     *)
(* runs as one step, and executions of one plugin may overlap.             *)

\* The agent executions and the seconds that are explored.
MaxExecutions == 3
MaxTime == 2

AgentNames == {"research_agent", "review_agent"}

\* An empty dict.
EmptyDict == [k \in {} |-> 0]

\* ObservabilityPlugin.__init__: the tracking state and metrics.  now is
\* time.time() in whole seconds; executions lists the executions the runner
\* started (agent, the iteration its start was logged with, start time,
\* ended), which the plugin does not see.
NewPlugin ==
    [pc |-> "observe", now |-> 0,
     agent_start_times |-> EmptyDict,
     agent_iteration_count |-> EmptyDict,
     agents_executed |-> <<>>,
     performance |-> EmptyDict,
     executions |-> <<>>]

\* f"{agent_name}_iter{iteration}"
timing_key(agent_name, p_iteration) == <<agent_name, "_iter", p_iteration>>

\* agent_name.lower().replace(...), with "_iter{iteration}" when iteration > 1
perf_key(agent_name, p_iteration) ==
    IF p_iteration > 1 THEN <<agent_name, "_iter", p_iteration>> ELSE <<agent_name>>

\* An agents_executed entry gets the key "iteration" only if iteration > 1.
WithIteration(entry, p_iteration) ==
    IF p_iteration > 1 THEN entry @@ [iteration |-> p_iteration] ELSE entry

\* before_agent_callback for the start of a new execution of agent_name.
before_agent_callback(p, agent_name) ==
    LET count == IF agent_name \in DOMAIN p.agent_iteration_count
                 THEN p.agent_iteration_count[agent_name] ELSE 0
        this_iteration == count + 1
        entry == [agent |-> agent_name, status |-> "started", timestamp |-> p.now,
                  execution |-> Len(p.executions) + 1]
    IN  [p EXCEPT
           !.agent_iteration_count = (agent_name :> this_iteration) @@ @,
           !.agent_start_times = (timing_key(agent_name, this_iteration) :> p.now) @@ @,
           !.agents_executed = Append(@, WithIteration(entry, this_iteration)),
           !.executions = Append(@, [agent |-> agent_name, iteration |-> this_iteration,
                                     started_at |-> p.now, ended |-> FALSE])]

\* after_agent_callback for the end of execution x of agent_name.
after_agent_callback(p, agent_name, x) ==
    LET this_iteration == IF agent_name \in DOMAIN p.agent_iteration_count
                          THEN p.agent_iteration_count[agent_name] ELSE 1
        key == timing_key(agent_name, this_iteration)
        duration == p.now - p.agent_start_times[key]
        entry == [agent |-> agent_name, status |-> "completed", timestamp |-> p.now,
                  duration |-> duration, execution |-> x]
        ended == [p EXCEPT !.executions[x].ended = TRUE]
    IN  IF key \in DOMAIN p.agent_start_times
        THEN [ended EXCEPT
                !.agents_executed = Append(@, WithIteration(entry, this_iteration)),
                !.performance = (perf_key(agent_name, this_iteration) :> duration) @@ @]
        ELSE ended

InitObserve ==
    /\ pc = "observe"
    /\ MODEL_NAME = NameFlashLite
    /\ trip_input = TripInputOf("Tokyo, Japan", Date20260401, Date20260410, "mid-range", "moderate")
    /\ iteration = 0
    /\ response_text = <<>>
    /\ Idle
    /\ IdleStore
    /\ weather = NoWeather
    /\ plugin = NewPlugin

ObserveUnchanged ==
    UNCHANGED <<MODEL_NAME, trip_input, pc, agents, research_data, current_itinerary,
                review_result, approved, iteration, max_iterations, metrics, raised,
                response_text, returned, calls, replies, failure, clock, session_id,
                session_files, log_files, runs, evaluation, weather>>

\* The runner starts an execution of agent_name.
BeforeAgent(agent_name) ==
    /\ plugin.pc = "observe"
    /\ Len(plugin.executions) < MaxExecutions
    /\ plugin' = before_agent_callback(plugin, agent_name)
    /\ ObserveUnchanged

\* Execution x, started and not yet ended, ends.
AfterAgent(x) ==
    /\ plugin.pc = "observe"
    /\ x \in 1..Len(plugin.executions)
    /\ ~plugin.executions[x].ended
    /\ plugin' = after_agent_callback(plugin, plugin.executions[x].agent, x)
    /\ ObserveUnchanged

\* A second passes.
TickObserve ==
    /\ plugin.pc = "observe"
    /\ plugin.now < MaxTime
    /\ plugin' = [plugin EXCEPT !.now = @ + 1]
    /\ ObserveUnchanged

NextObserve ==
    \/ \E agent_name \in AgentNames : BeforeAgent(agent_name)
    \/ \E x \in 1..MaxExecutions : AfterAgent(x)
    \/ TickObserve

SpecObserve == InitObserve /\ [][NextObserve]_vars

-----------------------------------------------------------------------------
(* The review-reply parser on its own: every text of ParseTexts and every  *)
(* checklist of ChecklistTexts, in every                                   *)
(* iteration the loop can call it with, in each tier.                      *)

InitParse ==
    /\ pc = "parse"
    /\ MODEL_NAME \in {NameFlashLite, NameFlash}
    /\ trip_input = TripInputOf("Tokyo, Japan", Date20260401, Date20260410, "mid-range", "moderate")
    /\ iteration \in 1..get_max_iterations(MODEL_NAME)
    /\ response_text \in ParseTexts \cup ChecklistTexts \cup DecimalReplies
    /\ Idle
    /\ IdleStore
    /\ IdleTools

\* review_result = self._parse_review_response(response_text, iteration)
ParseReview ==
    /\ pc = "parse"
    /\ review_result' =
           parse_review_response(load_agents_for_model(MODEL_NAME).review, response_text,
                                 iteration, MODEL_NAME)
    /\ pc' = "parsed"
    /\ UNCHANGED <<MODEL_NAME, trip_input, agents, research_data, current_itinerary, approved,
                   iteration, max_iterations, metrics, raised, response_text, returned, calls,
                   replies, failure>>
    /\ UNCHANGED <<clock, session_id, session_files, log_files, runs, evaluation, weather, plugin>>

NextParse == ParseReview

SpecParse == InitParse /\ [][NextParse]_vars

-----------------------------------------------------------------------------
(* validate_trip_input on its own, on every TripInput of TripInputs.       *)

InitValidate ==
    /\ pc = "validate"
    /\ MODEL_NAME = NameFlashLite
    /\ trip_input \in TripInputs
    /\ iteration = 0
    /\ response_text = <<>>
    /\ Idle
    /\ IdleStore
    /\ IdleTools

\* validate_trip_input(trip_input)
Validate ==
    /\ pc = "validate"
    /\ raised' = validate_trip_input(trip_input)
    /\ pc' = "validated"
    /\ UNCHANGED <<MODEL_NAME, trip_input, agents, research_data, current_itinerary,
                   review_result, approved, iteration, max_iterations, metrics, response_text,
                   returned, calls, replies, failure>>
    /\ UNCHANGED <<clock, session_id, session_files, log_files, runs, evaluation, weather, plugin>>

NextValidate == Validate

SpecValidate == InitValidate /\ [][NextValidate]_vars

-----------------------------------------------------------------------------
(* Properties of the planning run (Spec).                                  *)

\* The iteration budget of the tier the run was started in.
Budget == IF get_model_tier(MODEL_NAME) = "lite" THEN LiteMaxIterations ELSE ProMaxIterations

\* plan_trip has ended, and not because the generation service failed.
EndedWithoutServiceFailure == pc \in {"returned", "raised"} /\ failure = NoFailure

IsPrefix(a, b) == Len(a) <= Len(b) /\ \A k \in 1..Len(a) : a[k] = b[k]

\* C1: in each tier, whatever the review replies are, the refinement loop
\* makes at most `budget` Review calls and at most `budget` Plan calls, never
\* raises on a reply, and what it returns is the itinerary of the last Plan call.
C1_LoopTerminatesWithinBudget ==
    /\ calls.review <= Budget
    /\ calls.plan <= Budget
    /\ (pc = "raised" => failure # NoFailure)
    /\ (pc = "returned" => returned = current_itinerary /\ returned.draft = calls.plan)

\* The part of C1 that does not depend on a reply being parseable: the calls
\* stay within the budget and a returned itinerary is the last draft.
LoopWithinBudget ==
    /\ calls.review <= Budget
    /\ calls.plan <= Budget
    /\ (pc = "returned" => returned = current_itinerary /\ returned.draft = calls.plan)

LiteScenario == <<ReplyNeedsRevision, ReplyNeedsRevision, ReplyApproved>>

\* C2: a lite-tier run whose review replies are 'Score: 6/10, needs revision',
\* the same again, and 'Score: 9/10, approved' does not end before the third
\* reply, and ends with 3 Plan calls, 3 Review calls and a final ReviewResult
\* with approved = true and iteration_number = 3.
C2_LiteScenario ==
    (get_model_tier(MODEL_NAME) = "lite" /\ EndedWithoutServiceFailure
         /\ IsPrefix(replies, LiteScenario))
    => /\ pc = "returned"
       /\ replies = LiteScenario
       /\ calls.plan = 3
       /\ calls.review = 3
       /\ review_result.approved
       /\ review_result.iteration_number = 3

C2_Witness ==
    /\ get_model_tier(MODEL_NAME) = "lite"
    /\ pc = "returned"
    /\ replies = LiteScenario
    /\ trip_input = TripInputOf("Tokyo, Japan", Date20260401, Date20260410, "mid-range", "moderate")

\* C3: a pro-tier run whose review replies are all 'Score: 5/10' performs
\* exactly 5 Plan/Review rounds and returns the 5th draft; the final
\* ReviewResult is approved although its score 5 is below the threshold 8.
C3_ProForcedAfterFiveRounds ==
    (get_model_tier(MODEL_NAME) = "pro" /\ EndedWithoutServiceFailure
         /\ \A k \in 1..Len(replies) : replies[k] = ReplyScore5)
    => /\ pc = "returned"
       /\ Len(replies) = ProMaxIterations
       /\ calls.plan = ProMaxIterations
       /\ calls.review = ProMaxIterations
       /\ returned.draft = ProMaxIterations
       /\ review_result.approved
       /\ review_result.quality_score = 5
       /\ review_result.quality_score < ProApprovalThreshold

\* The trip's end date is a calendar day before its start date.
EndBeforeStart(ti) ==
    /\ IsIsoDate(ti.dates.start_date)
    /\ IsIsoDate(ti.dates.end_date)
    /\ fromisoformat(ti.dates.end_date) < fromisoformat(ti.dates.start_date)

C6_GenerationFailureAborts ==
    failure # NoFailure
    => /\ pc = "raised"
       /\ raised.raised = failure.error
       /\ metrics.success = FALSE
       /\ returned = NoItinerary
       /\ calls = failure.made_calls

C6_Witness ==
    /\ failure.stage = "replan"
    /\ failure.error = "ServerError"
    /\ pc = "raised"
    /\ research_data # NoResearch
    /\ calls.plan = 2

-----------------------------------------------------------------------------
(* Properties of validate_trip_input (SpecValidate).                       *)

BothIsoDates(ti) == IsIsoDate(ti.dates.start_date) /\ IsIsoDate(ti.dates.end_date)

\* The inclusive number of days of a trip with calendar dates.
TripDays(ti) == fromisoformat(ti.dates.end_date) - fromisoformat(ti.dates.start_date) + 1

\* The fields of a TripInput that are invalid.
OffendingFields(ti) ==
    {f \in {"destination", "end_date", "duration", "budget_level", "pace_preference"} :
        \/ f = "destination" /\ ti.destination = ""
        \/ f = "end_date" /\ EndBeforeStart(ti)
        \/ f = "duration" /\ BothIsoDates(ti) /\ TripDays(ti) \notin 1..365
        \/ f = "budget_level" /\ ti.preferences.budget_level \notin {"budget", "mid-range", "luxury"}
        \/ f = "pace_preference" /\ ti.preferences.pace_preference \notin {"relaxed", "moderate", "fast"}}

\* The field an error message names.
MessageField(msg) ==
    CASE msg = "Destination is required" -> "destination"
      [] msg = "End date must be after start date" -> "end_date"
      [] msg = "Trip duration must be at least 1 day" -> "duration"
      [] msg = "Trip duration cannot exceed 365 days (really? that's not a trip, that's relocating!)" -> "duration"
      [] msg = "Budget level must be one of: budget, mid-range, luxury" -> "budget_level"
      [] msg = "Pace must be one of: relaxed, moderate, fast" -> "pace_preference"
      [] OTHER -> "none"

\* What C5 says of one validated input.
ValidatedAsClaimed ==
    IF OffendingFields(trip_input) = {}
    THEN raised = Passed
    ELSE /\ raised.raised = "InvalidInputError"
         /\ MessageField(raised.message) \in OffendingFields(trip_input)

-----------------------------------------------------------------------------
(* Properties of the review-reply parser (SpecParse).                      *)

\* The reply holds a digit immediately followed by '/10' or ' out of 10'.
HasScorePattern(text) ==
    \E e \in 1..Len(text) : IsDigit(text[e]) /\ ScoreSuffixAt(lower(text), e + 1)

\* The reply holds one of the affirmative tokens, in any case.
HasAffirmativeToken(text) ==
    \E tok \in {TxtApprove, TxtApproved, TxtLooksGood} : Contains(lower(text), tok)

\* The default score the tier documents for a reply without a score.
DocumentedDefault == IF get_model_tier(MODEL_NAME) = "lite" THEN 7 ELSE 6

\* C7: the parser never raises: whatever the reply text and the iteration,
\* it returns a ReviewResult whose review_summary is the reply text.
C7_ParserNeverRaises ==
    pc = "parsed"
    => /\ review_result.raised = NoException
       /\ review_result.review_summary = response_text

\* C8: a reply without a score pattern parses, in each tier, to the tier's
\* documented default score with approved = false, and the parser does not raise.
C8_NoScoreGivesUnapprovedDefault ==
    (pc = "parsed" /\ ~HasScorePattern(response_text))
    => /\ review_result.raised = NoException
       /\ review_result.quality_score = DocumentedDefault
       /\ review_result.approved = FALSE

\* C9: the parsed approval flag is true exactly when the reply holds an
\* affirmative token, or the extracted score reaches the tier's threshold, or
\* the iteration is the last one the tier's budget permits.
C9_ApprovalRule ==
    (pc = "parsed" /\ review_result.raised = NoException)
    => (review_result.approved
        <=> \/ HasAffirmativeToken(response_text)
            \/ review_result.quality_score >= get_approval_threshold(MODEL_NAME)
            \/ iteration = Budget)

\* The number a reply with a score pattern writes before '/10' or ' out of 10'.
WrittenScore(text) == IntOf(re_search_score(lower(text)))

\* C10: in a fixed tier, of two replies without affirmative token, A with a
\* score at or above the threshold and B with a score below it, A parses to
\* approved = true and B to approved = false.  A is the parsed reply, B any
\* reply of ReviewReplies, parsed by the same agent in the same iteration.
C10_ApprovalMonotonic ==
    pc = "parsed"
    => \A b \in ReviewReplies :
          ( /\ HasScorePattern(response_text) /\ HasScorePattern(b)
            /\ ~HasAffirmativeToken(response_text) /\ ~HasAffirmativeToken(b)
            /\ WrittenScore(response_text) >= get_approval_threshold(MODEL_NAME)
            /\ WrittenScore(b) < get_approval_threshold(MODEL_NAME) )
          => /\ review_result.approved
             /\ ~parse_review_response(load_agents_for_model(MODEL_NAME).review, b,
                                       iteration, MODEL_NAME).approved

\* The number of the leftmost digit run of the reply that is immediately
\* followed by '/10' or ' out of 10' (case-insensitively).
FirstScoredNumber(text) ==
    LET s == lower(text)
        ends == {e \in 1..Len(s) : IsDigit(s[e]) /\ ScoreSuffixAt(s, e + 1)}
        e0 == SetMin(ends)
        i0 == SetMin({i \in 1..e0 : \A k \in i..e0 : IsDigit(s[k])})
    IN  IntOf(SubSeq(s, i0, e0))

\* C11: the parsed quality_score is the number of the leftmost occurrence of
\* a number immediately followed by '/10' or ' out of 10'; without such an
\* occurrence it is the documented default, 7.0 in the lite tier, 6.0 otherwise.
C11_ScoreIsFirstScoredNumber ==
    pc = "parsed"
    => /\ review_result.raised = NoException
       /\ review_result.quality_score =
              IF HasScorePattern(response_text)
              THEN FirstScoredNumber(response_text)
              ELSE DocumentedDefault

\* C12: the quality_score is clamped to [0, 10]: every returned verdict has
\* 0 <= quality_score <= 10, and a reply whose matched number is above 10
\* gives a verdict with quality_score = 10.
C12_ScoreClamped ==
    pc = "parsed"
    => /\ review_result.raised = NoException
       /\ review_result.quality_score >= 0
       /\ review_result.quality_score <= 10
       /\ (HasScorePattern(response_text) /\ FirstScoredNumber(response_text) > 10)
          => review_result.quality_score = 10

\* The issue the lite parser reports for a checklist category.
CategoryIssue(c) ==
    CASE c = "Geographic" -> "Geographic routing issues"
      [] c = "Activity Count" -> "Too many activities"
      [] c = "Costs" -> "Missing costs"
      [] c = "Interests" -> "Doesn't match interests"
      [] c = "Timing" -> "Timing unrealistic"

\* C13: in the lite tier a checklist category is flagged as an issue only
\* when its own checklist line reports FAIL; a category whose line reports
\* PASS is not flagged because another category's line reports FAIL.
C13_CategoryFlaggedOnlyOnOwnFail ==
    (pc = "parsed" /\ get_model_tier(MODEL_NAME) = "lite")
    => \A v \in ChecklistVerdicts :
          response_text = ChecklistText(v)
          => \A c \in DOMAIN v :
                (\E k \in 1..Len(review_result.issues_found) :
                     review_result.issues_found[k] = CategoryIssue(c))
                => v[c] = "FAIL"

-----------------------------------------------------------------------------
(* Tier selection (Spec).                                                  *)

\* The name holds the letters l, i, t, e in a row, in either case.
NameHasLite(name) ==
    \E i \in 1..(Len(name) - 3) :
        /\ name[i] \in {"l", "L"}
        /\ name[i + 1] \in {"i", "I"}
        /\ name[i + 2] \in {"t", "T"}
        /\ name[i + 3] \in {"e", "E"}

LiteClasses ==
    [research |-> "ResearchAgentLite", planning |-> "PlanningAgentLite",
     review |-> "ReviewAgentLite"]
ProClasses ==
    [research |-> "ResearchAgentPro", planning |-> "PlanningAgentPro",
     review |-> "ReviewAgentPro"]

\* C15: a model name containing 'lite' in any case selects the lite tier:
\* budget 3, threshold 7.0 and the three Lite classes; every other name
\* selects the pro tier: budget 5, threshold 8.0 and the three Pro classes.
\* The classes a run has loaded and the budget its loop has read are those
\* of one tier, never a mix.
C15_TierSelection ==
    LET is_lite == NameHasLite(MODEL_NAME)
    IN  /\ get_model_tier(MODEL_NAME) = IF is_lite THEN "lite" ELSE "pro"
        /\ get_max_iterations(MODEL_NAME) = IF is_lite THEN 3 ELSE 5
        /\ get_approval_threshold(MODEL_NAME) = IF is_lite THEN 7 ELSE 8
        /\ load_agents_for_model(MODEL_NAME) = IF is_lite THEN LiteClasses ELSE ProClasses
        /\ pc \in {"research", "plan", "review", "replan", "returned", "raised"}
           => agents = IF is_lite THEN LiteClasses ELSE ProClasses
        /\ pc \in {"review", "replan", "returned"}
           => max_iterations = IF is_lite THEN 3 ELSE 5

\* A run under the upper-case lite name has loaded the Lite classes and
\* reads the budget 3.
C15_Witness ==
    /\ pc = "review"
    /\ MODEL_NAME = NameFlashLiteUpper
    /\ agents = LiteClasses
    /\ max_iterations = 3

-----------------------------------------------------------------------------
(* The tier of a run when the model name changes (SpecReconfig).           *)

\* C16: within one plan_trip run the iteration budget of the loop and the
\* approval threshold of every review parse are those of the tier selected
\* at the start of the run (the tier whose agent classes the run loaded),
\* also when Config.MODEL_NAME is assigned while the run is in progress.
C16_TierHeldForRun ==
    /\ pc \in {"review", "replan", "returned"}
       => max_iterations = IF agents = LiteClasses THEN LiteMaxIterations ELSE ProMaxIterations
    /\ (agents = LiteClasses /\ review_result.raised = NoException)
       => (review_result.approved <=> review_result.quality_score >= LiteApprovalThreshold)

-----------------------------------------------------------------------------
(* The metrics of a run that returned (Spec).                              *)

\* C17: whenever plan_trip has returned an itinerary, metrics has success =
\* True and review_iterations equal to the number of Review calls of the run,
\* a number from 1 to the iteration budget, and the session saved for the
\* run carries the same count in its metadata.
C17_MetricsOnReturn ==
    pc = "returned"
    => /\ metrics.success = TRUE
       /\ metrics.review_iterations = calls.review
       /\ calls.review \in 1..Budget
       /\ session_files[session_id].exists
       /\ session_files[session_id].data.metadata.review_iterations = calls.review

\* A run has returned after two Review calls and saved the count 2.
C17_Witness ==
    /\ pc = "returned"
    /\ calls.review = 2
    /\ metrics = [review_iterations |-> 2, success |-> TRUE]
    /\ session_files[session_id].exists
    /\ session_files[session_id].data.metadata.review_iterations = 2

-----------------------------------------------------------------------------
(* Concurrent runs (SpecConcurrent).                                       *)

\* Run r has returned its own itinerary, and the session file under its
\* session id holds its own trip and its own iteration count.
OwnRecords(r) ==
    /\ runs[r].returned.destination = runs[r].trip_input.destination
    /\ session_files[runs[r].session_id].exists
    /\ session_files[runs[r].session_id].data.destination = runs[r].trip_input.destination
    /\ session_files[runs[r].session_id].data.metadata.review_iterations
           = runs[r].metrics.review_iterations

\* C18: two plan_trip runs executed concurrently without locking do not
\* interfere: when both have returned, each has returned its own itinerary,
\* the two session records and the two metrics files are distinct files, and
\* each session record holds only its own run's data, in every interleaving,
\* also when both runs start within the same second.
C18_RunsDoNotInterfere ==
    (\A r \in Runs : runs[r].pc = "returned")
    => /\ \A r \in Runs : OwnRecords(r)
       /\ runs[1].session_id # runs[2].session_id
       /\ runs[1].log_file # runs[2].log_file

-----------------------------------------------------------------------------
(* The evaluator and the saved session (SpecEvaluate).                     *)

\* A score in hundredths lies in [0, 10].
InScoreRange(score) == score \in 0..1000

\* C19: for every trip, itinerary (also one whose number of day plans
\* differs from duration_days, or whose duration_days is 0) and metrics,
\* evaluate does not raise, each of the four sub-scores lies in [0, 10] and
\* the weighted overall score lies in [0, 10].
C19_EvaluateTotalAndBounded ==
    pc = "evaluated"
    => /\ evaluation.raised = NoException
       /\ InScoreRange(evaluation.scores.performance)
       /\ InScoreRange(evaluation.scores.quality)
       /\ InScoreRange(evaluation.scores.feature_coverage)
       /\ InScoreRange(evaluation.scores.user_satisfaction)
       /\ InScoreRange(evaluation.overall_score)

\* C20: an itinerary built from a DayPlan sequence and a total cost is
\* summarised without loss: the evaluation details give its number of day
\* plans and its total cost, and the saved session gives its total cost,
\* whatever the narrative text is.
C20_StructuredFieldsRoundTrip ==
    pc = "evaluated"
    => /\ session_files[session_id].exists
       /\ session_files[session_id].data.total_cost = current_itinerary.total_estimated_cost
       /\ evaluation.raised = NoException
       /\ evaluation.details.quality.num_day_plans = Len(current_itinerary.day_plans)
       /\ evaluation.details.quality.budget = current_itinerary.total_estimated_cost

-----------------------------------------------------------------------------
(* WeatherAPI (SpecWeather).                                               *)

\* The API gave no forecast: there is no key, or the requests or the
\* processing of their result raised.
FromFallback(w) ==
    \/ ~w.has_api
    \/ fetch_forecast(w.api, w.destination, w.start_date, w.end_date).raised # NoException

AIKnowledgeSources == {"AI Knowledge (No API key provided)", "AI Knowledge (API error)"}

\* C21: get_weather returns a dictionary and never raises, for date objects,
\* ISO date strings and invalid strings; without an API key and when the API
\* call fails, the dictionary is the seasonal fallback's.
C21_GetWeatherNeverRaises ==
    weather.pc = "done"
    => /\ weather.result.raised = NoException
       /\ FromFallback(weather) => weather.result.source \in AIKnowledgeSources

-----------------------------------------------------------------------------
(* The refinement loop, step by step (Spec).                               *)

\* A Review call returned a verdict in this step.
ReviewedStep == pc = "review" /\ pc' # "raised"

\* A re-Plan call returned a draft in this step.
ReplannedStep == pc = "replan" /\ pc' # "raised"

\* C22: after the Review of round i the controller stops if and only if the
\* verdict is approved or i equals the iteration budget; otherwise it makes
\* exactly one re-Plan call and adds exactly 1 to the iteration counter
\* before the next Review.  It never re-plans after an approved verdict or in
\* round i = budget, and the counter never exceeds the budget.
C22_StopOrRefineOnce ==
    [][/\ ReviewedStep
          => /\ (pc' = "returned") = (review_result'.approved \/ iteration = Budget)
             /\ pc' # "returned"
                => (pc' = "replan" /\ iteration' = iteration /\ calls'.plan = calls.plan)
       /\ ReplannedStep
          => /\ ~review_result.approved
             /\ iteration < Budget
             /\ calls'.plan = calls.plan + 1
             /\ iteration' = iteration + 1
             /\ pc' = "review"
       /\ iteration' <= Budget]_vars

\* A run that used its whole budget ends on a rejected verdict, after one
\* re-plan per rejected round but the last.
C22_Witness ==
    /\ pc = "returned"
    /\ ~review_result.approved
    /\ iteration = Budget
    /\ calls.plan = Budget
    /\ calls.review = Budget

\* C23: the first Plan call of a run is made with no feedback; every later
\* Plan call is made with the review narrative (review_summary) of the
\* verdict of the immediately preceding Review call of the run, never that of
\* an older review.
C23_FeedbackIsLastReview ==
    /\ current_itinerary.draft = 1 => current_itinerary.review_feedback = NoFeedback
    /\ current_itinerary.draft > 1
       => /\ Len(replies) >= current_itinerary.draft - 1
          /\ current_itinerary.review_feedback
                 = [given |-> TRUE, text |-> replies[current_itinerary.draft - 1]]

\* The third draft of a run whose first two reviews differ: it was planned
\* with the second review's narrative.
C23_Witness ==
    /\ current_itinerary.draft = 3
    /\ Len(replies) >= 2
    /\ replies[1] # replies[2]
    /\ current_itinerary.review_feedback.given
    /\ current_itinerary.review_feedback.text = replies[2]

\* C24: Plan and Review calls strictly alternate, starting with Plan.  When
\* plan_trip returns, the number of Plan calls equals the number of Review
\* calls equals the final iteration counter, and the returned itinerary is
\* the draft of the last Plan call, which is the draft the last Review call
\* examined: a draft that was never reviewed is never returned.
C24_PlanReviewAlternate ==
    [][/\ pc' = "review" => calls'.plan = calls'.review + 1
       /\ pc' = "replan" => calls'.plan = calls'.review
       /\ (pc' = "returned" /\ pc # "returned")
          => /\ calls'.plan = calls'.review
             /\ calls'.review = iteration'
             /\ returned' = current_itinerary'
             /\ returned'.draft = calls'.plan
             /\ pc = "review"
             /\ current_itinerary' = current_itinerary]_vars

\* A run approved in its second round returns the second draft.
C24_Witness ==
    /\ pc = "returned"
    /\ review_result.approved
    /\ calls.plan = 2
    /\ calls.review = 2
    /\ iteration = 2
    /\ returned.draft = 2

\* The generation calls of the run that are in flight: plan_trip is suspended
\* at the await of one call at a time.
InFlight == IF pc \in {"research", "plan", "review", "replan"} THEN {pc} ELSE {}

\* C25: within one run the generation calls are strictly sequential: the
\* Research call completes before the first Plan call starts, every Plan call
\* completes before the Review of its draft starts, and at no time is more
\* than one generation call of the run in flight.
C25_CallsSequential ==
    /\ Cardinality(InFlight) <= 1
    /\ pc = "research" => calls = NoCalls
    /\ pc = "plan" => (calls.research = 1 /\ research_data # NoResearch /\ calls.plan = 0)
    /\ pc = "review"
       => (calls.plan = calls.review + 1 /\ current_itinerary.draft = calls.plan)
    /\ pc = "replan" => (calls.review = calls.plan /\ review_result.raised = NoException)

\* The second Review is in flight: one Research, two Plan calls and one
\* Review have completed.
C25_Witness ==
    /\ pc = "review"
    /\ calls = [research |-> 1, plan |-> 2, review |-> 1]
    /\ current_itinerary.draft = 2

-----------------------------------------------------------------------------
(* The Plan stage parser (SpecPlanParse).                                  *)

\* The budget level whose figures are used.
FiguresLevel(budget_level) ==
    IF budget_level \in {"budget", "mid-range", "luxury"} THEN budget_level ELSE "mid-range"

\* The structured fields of itinerary it are those claimed for trip ti.
StructuredAsClaimed(ti, it) ==
    LET level == FiguresLevel(ti.preferences.budget_level)
    IN  /\ it.duration_days = TripDays(ti)
        /\ Len(it.day_plans) = it.duration_days
        /\ \A k \in 1..Len(it.day_plans) :
              /\ it.day_plans[k].day_number = k
              /\ IsIsoDate(it.day_plans[k].date)
              /\ fromisoformat(it.day_plans[k].date)
                     = fromisoformat(ti.dates.start_date) + (k - 1)
        /\ it.total_estimated_cost
               = it.duration_days * daily_total(level) + flight_cost(level)

\* An itinerary without its narrative text.
StructuredFields(it) == [it EXCEPT !.generated_itinerary = <<>>]

\* The parse of this step gives the claimed fields, the same as the parse
\* before it in the run.
ParsedAsClaimed ==
    /\ StructuredAsClaimed(trip_input, current_itinerary')
    /\ calls.plan > 0 => StructuredFields(current_itinerary') = StructuredFields(current_itinerary)

-----------------------------------------------------------------------------
(* Decimal scores (SpecParse).                                             *)

\* The places <<i, j>> of s where a decimal number, digits from i, a point
\* at j and one digit after it, is immediately followed by "/10" or
\* " out of 10".
DecimalMatches(s) ==
    {m \in (1..Len(s)) \X (1..Len(s)) :
        /\ m[1] < m[2]
        /\ m[2] + 1 <= Len(s)
        /\ \A k \in m[1]..(m[2] - 1) : IsDigit(s[k])
        /\ m[1] = 1 \/ ~IsDigit(s[m[1] - 1])
        /\ s[m[2]] = "."
        /\ IsDigit(s[m[2] + 1])
        /\ ScoreSuffixAt(s, m[2] + 2)}

\* The written score, in tenths, of a text with one decimal score.
WrittenTenths(s) ==
    LET m == CHOOSE x \in DecimalMatches(s) : TRUE
    IN  10 * IntOf(SubSeq(s, m[1], m[2] - 1)) + DigitValue(s[m[2] + 1])

\* C27: when the reviewer writes its score as a decimal number immediately
\* followed by "/10" or " out of 10" (e.g. "8.5/10"), the extracted
\* quality_score is the value of the whole written number (8.5), not that of
\* the digits after the decimal point (5), and approval against the
\* threshold is decided on the written score.
C27_DecimalScoreRead ==
    (pc = "parsed" /\ DecimalMatches(lower(response_text)) # {})
    => /\ review_result.raised = NoException
       /\ 10 * review_result.quality_score = WrittenTenths(lower(response_text))
       /\ get_model_tier(MODEL_NAME) = "lite"
          => review_result.approved
                 = (WrittenTenths(lower(response_text))
                        >= 10 * get_approval_threshold(MODEL_NAME))

-----------------------------------------------------------------------------
(* The review stage's iteration bound (Spec).                              *)

\* The reply itself approves: by its score in the lite tier, by an approval
\* keyword in the strict tier.
ReplyApproves(review_class, text, model_name) ==
    IF review_class = "ReviewAgentLite"
    THEN LET m == re_search_score(lower(text))
         IN  (IF m # <<>> THEN IntOf(m) ELSE 7) >= get_approval_threshold(model_name)
    ELSE \/ Contains(lower(text), TxtApprove)
         \/ Contains(lower(text), TxtApproved)
         \/ Contains(lower(text), TxtLooksGood)

\* The held verdict is approved although its reply does not approve.
ForceApproved ==
    /\ review_result # NoReview
    /\ review_result.approved
    /\ ~ReplyApproves(agents.review, review_result.review_summary, MODEL_NAME)

\* C29: in both tiers the iteration bound of the review stage (the N of
\* 'Iteration i/N', the LoopAgent's max_iterations and the N of the
\* force-approve test iteration >= N) equals the budget the loop controller
\* uses for the active tier, so a verdict is force-approved only in the
\* run's final permitted round.
C29_ReviewBoundIsBudget ==
    review_result # NoReview
    => /\ MAX_REVIEW_ITERATIONS = max_iterations
       /\ ForceApproved => review_result.iteration_number = max_iterations

-----------------------------------------------------------------------------
(* What the loop holds (Spec).                                             *)

\* C28: at every point of a run the controller holds exactly one current
\* draft and at most one current verdict: each re-plan replaces the held
\* draft by a newly constructed one, each review replaces the held verdict by
\* the parse of its own reply and leaves the draft as it is, no other step
\* touches either, and neither is a list of earlier drafts or verdicts.
C28_HoldsLatestOnly ==
    [][/\ ReplannedStep
          => /\ current_itinerary'.draft = current_itinerary.draft + 1
             /\ current_itinerary'.draft = calls'.plan
             /\ current_itinerary' # current_itinerary
             /\ review_result' = review_result
       /\ ReviewedStep
          => /\ review_result'
                    = parse_review_response(agents.review, response_text', iteration, MODEL_NAME)
             /\ review_result'.iteration_number = calls'.review
             /\ current_itinerary' = current_itinerary
       /\ ~(ReplannedStep \/ ReviewedStep \/ pc = "plan")
          => /\ current_itinerary' = current_itinerary
             /\ review_result' = review_result
       /\ calls'.review = 0 => review_result' = NoReview
       /\ DOMAIN current_itinerary' = DOMAIN NoItinerary
       /\ DOMAIN review_result' = DOMAIN NoReview]_vars

\* After the first re-plan the second draft is held together with the
\* verdict of round 1, and the second review is awaited.
C28_Witness ==
    /\ pc = "review"
    /\ calls.plan = 2
    /\ calls.review = 1
    /\ current_itinerary.draft = 2
    /\ review_result.iteration_number = 1
    /\ ~review_result.approved

-----------------------------------------------------------------------------
(* The plugin's agent log (SpecObserve).                                   *)

\* The iteration an agents_executed entry carries: the key is left out for
\* iteration 1.
EntryIteration(entry) == IF "iteration" \in DOMAIN entry THEN entry.iteration ELSE 1

\* The 'completed' entries of agents_executed written for execution x.
CompletedOf(p, x) ==
    {i \in 1..Len(p.agents_executed) :
        /\ p.agents_executed[i].status = "completed"
        /\ p.agents_executed[i].execution = x}

\* Every 'completed' entry belongs to its own execution, and every ended
\* execution has exactly one.
CompletedEntriesMatch(p) ==
    /\ \A i \in 1..Len(p.agents_executed) :
          p.agents_executed[i].status = "completed"
          => LET e == p.agents_executed[i]
                 x == p.executions[e.execution]
             IN  /\ EntryIteration(e) = x.iteration
                 /\ e.duration = e.timestamp - x.started_at
    /\ \A x \in 1..Len(p.executions) :
          p.executions[x].ended => Cardinality(CompletedOf(p, x)) = 1

\* C30: for every interleaving of before_agent_callback and
\* after_agent_callback of agents with the same name, overlapping executions
\* included, each 'completed' entry carries the iteration number of the
\* 'started' entry of the same execution and a duration measured from that
\* execution's own start, every started execution that ends gets exactly one
\* 'completed' entry, and the per-agent iteration counter only increases.
C30_CompletedMatchesStarted ==
    [][/\ CompletedEntriesMatch(plugin')
       /\ \A a \in DOMAIN plugin.agent_iteration_count :
             /\ a \in DOMAIN plugin'.agent_iteration_count
             /\ plugin'.agent_iteration_count[a] >= plugin.agent_iteration_count[a]]_vars

====
